---- MODULE Spec2Model ----
(***************************************************************************)
(* A model of MissionCommander's messaging core:                           *)
(*   - connection.py  ConnectionHandler and Message, at the level of the   *)
(*     bytes on the socket (specification SpecConn);                       *)
(*   - client.py      Client, its caller thread and recv-consumer threads  *)
(*     (specification SpecClient);                                         *)
(*   - server.py      Server, ClientHandler and the directory              *)
(*     (specification SpecServer).                                         *)
(* The three specifications share one list of variables; each leaves the   *)
(* variables of the other two at their initial values.                     *)
(***************************************************************************)
EXTENDS Integers, Sequences, FiniteSets, TLC

(***************************************************************************)
(* Program constants.                                                      *)
(***************************************************************************)
HEADER_LEN_BYTES == 64
CHUNK_SIZE_BYTES == 2048

(***************************************************************************)
(* Bounds of the model.                                                    *)
(***************************************************************************)
\* send() calls made on handler "a" in SpecConn
MaxSend == 2
\* frames a raw (non-handler) peer writes in SpecConn
MaxRaw == 2
\* bytes of one TCP segment, and of one partial write
SegmentSize == 40

(***************************************************************************)
(* Message and its serialisation (connection.py, class Message).           *)
(* A payload is a sequence of key/value pairs; a value is a string, an     *)
(* integer or a boolean.                                                   *)
(***************************************************************************)
StrVal(s) == [t |-> "str", s |-> s, i |-> 0, b |-> FALSE]
IntVal(i) == [t |-> "int", s |-> "", i |-> i, b |-> FALSE]
BoolVal(b) == [t |-> "bool", s |-> "", i |-> 0, b |-> b]
KV(k, v) == [k |-> k, v |-> v]

Message(subject, payload) == [subject |-> subject, payload |-> payload]

Digit(d) ==
    CASE d = 0 -> "0" [] d = 1 -> "1" [] d = 2 -> "2" [] d = 3 -> "3"
      [] d = 4 -> "4" [] d = 5 -> "5" [] d = 6 -> "6" [] d = 7 -> "7"
      [] d = 8 -> "8" [] OTHER -> "9"

RECURSIVE IntToStr(_)
IntToStr(n) ==
    IF n < 0 THEN "-" \o IntToStr(0 - n)
    ELSE IF n < 10 THEN Digit(n)
    ELSE IntToStr(n \div 10) \o Digit(n % 10)

\* the characters of a text, one by one
Chars(text) == [i \in 1..Len(text) |-> SubSeq(text, i, i)]

RECURSIVE Join(_)
Join(cs) == IF cs = <<>> THEN "" ELSE Head(cs) \o Join(Tail(cs))

EscapeNone(ch) == ch

\* json.dumps of a string: the quote and the backslash are escaped
EscapeChar(ch) == IF ch \in {"\"", "\\"} THEN "\\" \o ch ELSE ch
JsonString(s) == "\"" \o Join([i \in 1..Len(s) |-> EscapeChar(SubSeq(s, i, i))]) \o "\""

\* json.dumps of one value
JsonValue(v) ==
    CASE v.t = "str" -> JsonString(v.s)
      [] v.t = "int" -> IntToStr(v.i)
      [] OTHER -> IF v.b THEN "true" ELSE "false"

RECURSIVE JsonItems(_)
JsonItems(p) ==
    IF p = <<>> THEN ""
    ELSE JsonString(Head(p).k) \o ": " \o JsonValue(Head(p).v)
         \o (IF Tail(p) = <<>> THEN "" ELSE ", " \o JsonItems(Tail(p)))

\* Message.serialize: json.dumps(payload, indent=None).encode('utf-8')
Serialize(payload) == "{" \o JsonItems(payload) \o "}"

\* the header text of __send_queue_tick:
\* json.dumps({'length': len(bytes_out), 'subject': subject})
HeaderText(length, subject) ==
    "{\"length\": " \o IntToStr(length) \o ", \"subject\": " \o JsonString(subject) \o "}"

\* the frame __send_queue_tick puts on the wire for a message: a 64-byte
\* null-padded header carrying length and subject, then the body
Frame(msg) ==
    [hk |-> "ok", length |-> Len(Serialize(msg.payload)),
     subject |-> msg.subject, body |-> Serialize(msg.payload)]

HeaderFitsStrictly(f) == Len(HeaderText(f.length, f.subject)) < HEADER_LEN_BYTES

\* line 159: not (len(header) > HEADER_LEN_BYTES)
HeaderFits(f) == Len(HeaderText(f.length, f.subject)) <= HEADER_LEN_BYTES

(***************************************************************************)
(* The messages of the model.                                              *)
(***************************************************************************)
Payloads == { <<>>, <<KV("k", StrVal("v"))>>, <<KV("id", StrVal("c1"))>> }
M1 == Message("m1", <<>>)
M2 == Message("m2", <<KV("k", StrVal("v"))>>)
Msgs == {M1, M2}
NoMsg == Message("", <<>>)
\* a message whose header is exactly HEADER_LEN_BYTES long, and one whose
\* header is one byte longer
M64 == Message("ssssssssssssssssssssssssssssssssssss", <<>>)
M65 == Message("sssssssssssssssssssssssssssssssssssss", <<>>)
BigMsgs == {M64, M65}

(***************************************************************************)
(* json.loads, for the texts json.dumps writes and for what a peer may     *)
(* write in their place: an object whose values are strings, integers and  *)
(* booleans.  ok is FALSE where json.loads raises.                         *)
(***************************************************************************)
\* F applied to the value of e, which is computed once
With(e, F(_)) == CHOOSE y \in {F(x) : x \in {e}} : TRUE

At(c, i) == IF i >= 1 /\ i <= Len(c) THEN c[i] ELSE ""
Slice(c, i, n) == IF i >= 1 /\ i + n - 1 <= Len(c) THEN SubSeq(c, i, i + n - 1) ELSE <<>>

RECURSIVE SkipWs(_, _)
SkipWs(c, i) == IF At(c, i) = " " THEN SkipWs(c, i + 1) ELSE i

\* the number of backslashes in a row just before position p, from i on
BackslashRun(c, p, i) ==
    p - 1 - CHOOSE q \in (i - 1)..(p - 1) :
                /\ q = i - 1 \/ c[q] # "\\"
                /\ \A r \in (q + 1)..(p - 1) : c[r] = "\\"
\* position p holds a character that is not escaped by a backslash before it
Unescaped(c, p, i) == BackslashRun(c, p, i) % 2 = 0

\* the string whose opening quote is just before position i: it ends at the
\* first quote that is not escaped, and its escapes are \" and \\
ScanString(c, i) ==
    With({j \in i..Len(c) : c[j] = "\"" /\ Unescaped(c, j, i)}, LAMBDA ends :
        IF ends = {} THEN [ok |-> FALSE, s |-> "", next |-> 0]
        ELSE With(CHOOSE j \in ends : \A j2 \in ends : j <= j2, LAMBDA j :
             With([p \in 1..(j - i) |->
                      [ch |-> c[i + p - 1],
                       esc |-> c[i + p - 1] = "\\" /\ Unescaped(c, i + p - 1, i)]],
                  LAMBDA body :
                 IF \E p \in 1..(j - i) :
                        body[p].esc /\ At(c, i + p) \notin {"\"", "\\"}
                 THEN [ok |-> FALSE, s |-> "", next |-> 0]
                 ELSE [ok |-> TRUE, next |-> j + 1,
                       s |-> Join([p \in 1..Len(SelectSeq(body, LAMBDA e : ~e.esc)) |->
                                      SelectSeq(body, LAMBDA e : ~e.esc)[p].ch])])))

Digits == {"0", "1", "2", "3", "4", "5", "6", "7", "8", "9"}
DigitOf(ch) == CHOOSE d \in 0..9 : Digit(d) = ch

RECURSIVE ScanDigits(_, _, _)
ScanDigits(c, i, acc) ==
    With(<<i, acc, At(c, i)>>, LAMBDA a :
        IF a[3] \in Digits THEN ScanDigits(c, a[1] + 1, a[2] * 10 + DigitOf(a[3]))
        ELSE [n |-> a[2], next |-> a[1]])

NoValue == [ok |-> FALSE, v |-> StrVal(""), next |-> 0]

\* a number: no leading zero
ScanNumber(c, i, sign) ==
    IF At(c, i) \notin Digits \/ (At(c, i) = "0" /\ At(c, i + 1) \in Digits) THEN NoValue
    ELSE With(ScanDigits(c, i, 0), LAMBDA r :
             [ok |-> TRUE, v |-> IntVal(sign * r.n), next |-> r.next])

ParseValue(c, i) ==
    CASE At(c, i) = "\"" ->
           With(ScanString(c, i + 1), LAMBDA r :
               [ok |-> r.ok, v |-> StrVal(r.s), next |-> r.next])
      [] Slice(c, i, 4) = <<"t", "r", "u", "e">> ->
           [ok |-> TRUE, v |-> BoolVal(TRUE), next |-> i + 4]
      [] Slice(c, i, 5) = <<"f", "a", "l", "s", "e">> ->
           [ok |-> TRUE, v |-> BoolVal(FALSE), next |-> i + 5]
      [] At(c, i) = "-" -> ScanNumber(c, i + 1, -1)
      [] OTHER -> ScanNumber(c, i, 1)

\* d[k] = v on a dict: a key that is there keeps its place
Put(p, k, v) ==
    IF \E n \in 1..Len(p) : p[n].k = k
    THEN [n \in 1..Len(p) |-> IF p[n].k = k THEN KV(k, v) ELSE p[n]]
    ELSE Append(p, KV(k, v))

NoObject == [ok |-> FALSE, payload |-> <<>>, next |-> 0]

\* the members of an object, from position i on, up to its closing brace:
\* a key, a colon, a value, and then a comma or the brace
RECURSIVE ParseMembers(_, _, _)
ParseMembers(c, i, acc) ==
    With(SkipWs(c, i), LAMBDA i1 :
    With(ScanString(c, i1 + 1), LAMBDA k :
    With(SkipWs(c, k.next), LAMBDA i2 :
    With(ParseValue(c, SkipWs(c, i2 + 1)), LAMBDA v :
    With(SkipWs(c, v.next), LAMBDA i3 :
    With(Put(acc, k.s, v.v), LAMBDA items :
        IF At(c, i1) # "\"" \/ ~k.ok \/ At(c, i2) # ":" \/ ~v.ok THEN NoObject
        ELSE IF At(c, i3) = "," THEN ParseMembers(c, i3 + 1, items)
        ELSE IF At(c, i3) = "}" THEN [ok |-> TRUE, payload |-> items, next |-> i3 + 1]
        ELSE NoObject))))))

JsonLoads(chars) ==
    With(chars, LAMBDA c :
    With(SkipWs(c, SkipWs(c, 1) + 1), LAMBDA i1 :
    With(IF At(c, i1) = "}" THEN [ok |-> TRUE, payload |-> <<>>, next |-> i1 + 1]
         ELSE ParseMembers(c, i1, <<>>), LAMBDA r :
        IF At(c, SkipWs(c, 1)) = "{" /\ r.ok /\ SkipWs(c, r.next) = Len(c) + 1
        THEN [ok |-> TRUE, payload |-> r.payload]
        ELSE [ok |-> FALSE, payload |-> <<>>])))

\* Message.deserialize: json.loads(bytes_in.decode('utf-8')); ok is FALSE
\* where it raises
Deserialize(text) == JsonLoads(Chars(text))

(***************************************************************************)
(* A frame byte by byte.  A byte is the character it encodes (the texts    *)
(* json.dumps writes are ASCII), or NUL.                                   *)
(***************************************************************************)
NUL == "NUL"
\* text.encode('utf-8')
Encode(text) == Chars(text)
\* line 161: header.ljust(HEADER_LEN_BYTES, b'\x00')
Ljust(b, n) == b \o [i \in 1..(n - Len(b)) |-> NUL]

\* lines 157-161, and the two sends of lines 166-185
HeaderBytes(msg) ==
    Ljust(Encode(HeaderText(Len(Encode(Serialize(msg.payload))), msg.subject)),
          HEADER_LEN_BYTES)
FrameBytes(msg) == HeaderBytes(msg) \o Encode(Serialize(msg.payload))

\* lines 122-127: decode, remove the null bytes, json.loads, and the two keys
HeaderValue(p, k) ==
    IF \E n \in 1..Len(p) : p[n].k = k
    THEN [ok |-> TRUE, v |-> p[CHOOSE n \in 1..Len(p) : p[n].k = k].v]
    ELSE [ok |-> FALSE, v |-> StrVal("")]
ParseHeader(b) ==
    With(JsonLoads(SelectSeq(b, LAMBDA ch : ch # NUL)), LAMBDA header :
    With(<<HeaderValue(header.payload, "length"),
           HeaderValue(header.payload, "subject")>>, LAMBDA hv :
        [ok |-> header.ok /\ hv[1].ok /\ hv[2].ok /\ hv[1].v.t = "int",
         msglen |-> hv[1].v.i, subj |-> hv[2].v.s]))

\* __recv_queue_tick on the bytes of one frame: the header, then msglen
\* bytes of body, then Message.deserialize
ParseFrame(b) ==
    With(ParseHeader(SubSeq(b, 1, HEADER_LEN_BYTES)), LAMBDA h :
    With(JsonLoads(SubSeq(b, HEADER_LEN_BYTES + 1, HEADER_LEN_BYTES + h.msglen)), LAMBDA d :
        IF Len(b) >= HEADER_LEN_BYTES /\ h.ok /\ Len(b) >= HEADER_LEN_BYTES + h.msglen /\ d.ok
        THEN [ok |-> TRUE, msg |-> Message(h.subj, d.payload)]
        ELSE [ok |-> FALSE, msg |-> NoMsg]))

(***************************************************************************)
(* Bytes.  A stream is a sequence of runs; a run is n consecutive bytes,   *)
(* from offset off, of the header ("H") or the body ("B") of a frame.      *)
(***************************************************************************)
Run(f, part, off, n) == [f |-> f, part |-> part, off |-> off, n |-> n]

Min(a, b) == IF a < b THEN a ELSE b

AppendRun(s, r) ==
    IF s # <<>> /\ s[Len(s)].f = r.f /\ s[Len(s)].part = r.part
                /\ s[Len(s)].off + s[Len(s)].n = r.off
    THEN [s EXCEPT ![Len(s)].n = @ + r.n]
    ELSE Append(s, r)

RECURSIVE ConcatRuns(_, _)
ConcatRuns(s, t) ==
    IF t = <<>> THEN s ELSE ConcatRuns(AppendRun(s, Head(t)), Tail(t))

RECURSIVE TotalBytes(_)
TotalBytes(s) == IF s = <<>> THEN 0 ELSE Head(s).n + TotalBytes(Tail(s))

RECURSIVE TakeBytes(_, _)
TakeBytes(s, k) ==
    IF k = 0 \/ s = <<>> THEN <<>>
    ELSE IF Head(s).n <= k
         THEN <<Head(s)>> \o TakeBytes(Tail(s), k - Head(s).n)
         ELSE <<[Head(s) EXCEPT !.n = k]>>

RECURSIVE DropBytes(_, _)
DropBytes(s, k) ==
    IF k = 0 \/ s = <<>> THEN s
    ELSE IF Head(s).n <= k
         THEN DropBytes(Tail(s), k - Head(s).n)
         ELSE <<[Head(s) EXCEPT !.off = @ + k, !.n = @ - k]>> \o Tail(s)

\* the bytes are exactly one whole part (header or body) of one frame
Whole(chunks, part, n) ==
    /\ Len(chunks) = 1
    /\ chunks[1].part = part /\ chunks[1].off = 0 /\ chunks[1].n = n

\* What lines 122-126 of __recv_queue_tick make of 64 received bytes:
\*   "ok"       the header decodes and has length and subject
\*   "badutf8"  bytes.decode('utf-8') raises
\*   "badjson"  json.loads raises (also: 64 bytes that are not one aligned
\*              header, which are no JSON value)
\*   "nokey"    the JSON object lacks length or subject
\*   "badlen"   length is present and is not a number
HeaderKind(chunks) ==
    IF Whole(chunks, "H", HEADER_LEN_BYTES) THEN chunks[1].f.hk ELSE "badjson"

\* the headers a peer that is no ConnectionHandler may write
BadHeaderKinds == {"badutf8", "badjson", "nokey", "badlen"}
BadFrame(kind) == [hk |-> kind, length |-> 0, subject |-> "", body |-> ""]

(***************************************************************************)
(* State of SpecConn: two ConnectionHandlers, "a" and "b", on the two ends *)
(* of one TCP connection.                                                  *)
(***************************************************************************)
Ends == {"a", "b"}
Peer(e) == IF e = "a" THEN "b" ELSE "a"

VARIABLES
    should_run,              \* ConnectionHandler.__should_run
    thread,                  \* __thread: "none", "alive", "done" (returned), "died" (exception)
    pc,                      \* where the I/O loop thread is in __main_loop
    outbound_message_queue,  \* __outbound_message_queue
    inbound_message_queue,   \* __inbound_message_queue
    sock,                    \* the end's socket: "open" or "closed"
    rx,                      \* locals of __recv_queue_tick
    tx,                      \* locals of __send_queue_tick
    wire,                    \* bytes in flight towards the end
    rbuf,                    \* bytes arrived in the end's receive buffer
    link,                    \* FALSE once the connection is reset
    enqueued,                \* the messages send() was called with on "a", in order
    received,                \* the messages recv() returned on each end, in order
    rawCount,                \* frames written by a raw peer on "a"'s socket
    cause                    \* why the end's I/O loop thread died, "" while it has not

connVars == <<should_run, thread, pc, outbound_message_queue, inbound_message_queue,
              sock, rx, tx, wire, rbuf, link, enqueued, received, rawCount, cause>>

(***************************************************************************)
(* State of SpecClient and SpecServer.  Here a ConnectionHandler is        *)
(* modelled one message per socket call (the bytes are SpecConn's          *)
(* business); handlers and sockets are objects, named by their index.      *)
(***************************************************************************)
VARIABLES
    handlers,   \* ConnectionHandler objects: should_run, thread, pc, queues, sock
    sockets,    \* socket objects: their state, what arrived, what was written, the far end
    \* ---- Client
    attempt_reconnect,          \* Client.attempt_reconnect
    fields,                     \* __address, __port, __client_id, __interface, __bind_port
    conn,                       \* Client.__conn: a handler, or 0 for None
    state,                      \* Client.__state: the set of flags that are set
    recv_consumer_should_run,   \* Client.__recv_consumer_should_run
    recv_consumer_thread,       \* Client.__recv_consumer_thread: a thread, or 0 for None
    t_pc,       \* where each thread of the client is (thread 0 is the caller's)
    t_ss,       \* each thread's locals of __set_state
    t_loc,      \* each thread's other locals
    calls,      \* the calls the caller's thread has made, by name, in order
    ev,         \* events dispatched by __trigger, per event
    callbacks,  \* Client.__callbacks: per event, the subscribed callbacks in order
    cb_threads, \* the threads __trigger has started, in order
    sc_last,    \* the transition carried by the last statechange event
    listening,  \* the server: "up", "down", or "late" (it came up after being down)
    srv_sent,   \* messages the server has sent to the client
    drops       \* connections lost (closed, reset, shut down) and local binds failed

cliVars == <<attempt_reconnect, fields, conn, state, recv_consumer_should_run,
             recv_consumer_thread, t_pc, t_ss, t_loc, calls, ev, callbacks, cb_threads,
             sc_last,
             listening, srv_sent, drops>>

\* ---- Server
VARIABLES
    srv_should_run,   \* Server.__should_run
    accept_socket,    \* Server.__accept_socket: "none", "listening" or "closed"
    srv_conns,        \* Server.__conns: its entries [id, h] in insertion order
    client_ids,       \* ClientHandler.__client_id of each handler
    accept_thread,    \* Server.__accept_thread: "none", "alive", "done", "died"
    a_pc,             \* where the accept thread is
    a_loc,            \* locals of __accept_loop and __negotiate_client_id
    backlog,          \* connected sockets waiting for accept()
    s_pc,             \* where the thread calling start(), stop() and send() is
    s_hist            \* counters that bound the run, and what subscribers were told

srvVars == <<srv_should_run, accept_socket, srv_conns, client_ids, accept_thread,
             a_pc, a_loc, backlog, s_pc, s_hist>>

objVars == <<handlers, sockets>>

\* ---- the codec taken alone
VARIABLES
    codec   \* a message, the bytes of its frame, and the message parsed from them

appVars == <<objVars, cliVars, srvVars, codec>>

RxIdle == [bytes_recvd |-> 0, chunks |-> <<>>, msglen |-> 0, subj |-> ""]
TxIdle == [msg |-> NoMsg, total |-> 0]

ConnInit ==
    /\ should_run = [e \in Ends |-> FALSE]
    /\ thread = [e \in Ends |-> "none"]
    /\ pc = [e \in Ends |-> "loop"]
    /\ outbound_message_queue = [e \in Ends |-> <<>>]
    /\ inbound_message_queue = [e \in Ends |-> <<>>]
    /\ sock = [e \in Ends |-> "open"]
    /\ rx = [e \in Ends |-> RxIdle]
    /\ tx = [e \in Ends |-> TxIdle]
    /\ wire = [e \in Ends |-> <<>>]
    /\ rbuf = [e \in Ends |-> <<>>]
    /\ link = TRUE
    /\ enqueued = <<>>
    /\ received = [e \in Ends |-> <<>>]
    /\ rawCount = 0
    /\ cause = [e \in Ends |-> ""]

(***************************************************************************)
(* ConnectionHandler: the I/O loop thread, one socket call per step.       *)
(***************************************************************************)
\* the peer can no longer be written to
Broken(e) == ~link \/ sock[Peer(e)] = "closed"
\* recv() returns b'': the peer closed and all it sent was read
AtEOF(e) == link /\ rbuf[e] = <<>> /\ wire[e] = <<>> /\ sock[Peer(e)] = "closed"

\* the thread ends by an exception that nothing catches: lines 197-200 do not run
Dies(e, why) ==
    /\ thread' = [thread EXCEPT ![e] = "died"]
    /\ cause' = [cause EXCEPT ![e] = why]

\* a tick returned True: __main_loop goes on to the send tick (from the recv
\* tick) or to the loop condition (from the send tick)
\* a tick returned False: self.stop(blocking=False); continue
TickFalse(e) ==
    /\ should_run' = [should_run EXCEPT ![e] = FALSE]
    /\ pc' = [pc EXCEPT ![e] = "loop"]

\* __main_loop, line 187 (the loop condition) and lines 197-200 (the exit)
LoopTop(e) ==
    /\ thread[e] = "alive" /\ pc[e] = "loop"
    /\ IF should_run[e]
       THEN /\ pc' = [pc EXCEPT ![e] = "recv_header"]
            /\ rx' = [rx EXCEPT ![e] = RxIdle]
            /\ UNCHANGED <<thread, sock>>
       ELSE /\ thread' = [thread EXCEPT ![e] = "done"]
            /\ sock' = [sock EXCEPT ![e] = "closed"]
            /\ UNCHANGED <<pc, rx>>
    /\ UNCHANGED <<should_run, outbound_message_queue, inbound_message_queue, tx,
                   wire, rbuf, link, enqueued, received, rawCount, cause>>
    /\ UNCHANGED appVars

\* __recv_queue_tick, lines 114-130: one recv() of the header loop that
\* returns data, and, once 64 bytes are there, the parse of the header
RecvHeaderChunk(e) ==
    /\ thread[e] = "alive" /\ pc[e] = "recv_header"
    /\ link /\ rbuf[e] # <<>>
    /\ LET k == Min(HEADER_LEN_BYTES - rx[e].bytes_recvd, TotalBytes(rbuf[e]))
           chunks == ConcatRuns(rx[e].chunks, TakeBytes(rbuf[e], k))
           got == rx[e].bytes_recvd + k
           kind == HeaderKind(chunks)
           f == chunks[1].f
       IN /\ rbuf' = [rbuf EXCEPT ![e] = DropBytes(@, k)]
          /\ IF got < HEADER_LEN_BYTES
             THEN /\ rx' = [rx EXCEPT ![e].bytes_recvd = got, ![e].chunks = chunks]
                  /\ UNCHANGED <<pc, thread, cause>>
             ELSE CASE kind = "ok" ->
                         \* a length <= 0 skips the body loop; b'' is no JSON
                         /\ rx' = [rx EXCEPT ![e] = [bytes_recvd |-> 0, chunks |-> <<>>,
                                                     msglen |-> f.length, subj |-> f.subject]]
                         /\ pc' = [pc EXCEPT ![e] = IF f.length > 0 THEN "recv_body" ELSE "send"]
                         /\ UNCHANGED <<thread, cause>>
                    [] kind \in {"badjson", "nokey"} ->
                         \* caught at line 127: return True
                         /\ rx' = [rx EXCEPT ![e] = RxIdle]
                         /\ pc' = [pc EXCEPT ![e] = "send"]
                         /\ UNCHANGED <<thread, cause>>
                    [] kind = "badutf8" ->
                         \* line 123 raises before header is bound; line 129
                         \* then raises UnboundLocalError inside the handler
                         /\ Dies(e, "badutf8")
                         /\ UNCHANGED <<rx, pc>>
                    [] OTHER ->
                         \* "badlen": line 134 compares an int with a non-number
                         /\ Dies(e, "badlen")
                         /\ UNCHANGED <<rx, pc>>
    /\ UNCHANGED <<should_run, outbound_message_queue, inbound_message_queue, sock, tx,
                   wire, link, enqueued, received, rawCount>>
    /\ UNCHANGED appVars

\* line 117: socket.timeout in the header loop: return True
RecvHeaderTimeout(e) ==
    /\ thread[e] = "alive" /\ pc[e] = "recv_header"
    /\ link /\ rbuf[e] = <<>> /\ ~AtEOF(e)
    /\ pc' = [pc EXCEPT ![e] = "send"]
    /\ rx' = [rx EXCEPT ![e] = RxIdle]
    /\ UNCHANGED <<should_run, thread, outbound_message_queue, inbound_message_queue, sock,
                   tx, wire, rbuf, link, enqueued, received, rawCount, cause>>
    /\ UNCHANGED appVars

\* line 118: recv() returned b'': return False
RecvHeaderClosed(e) ==
    /\ thread[e] = "alive" /\ pc[e] = "recv_header"
    /\ AtEOF(e)
    /\ TickFalse(e)
    /\ rx' = [rx EXCEPT ![e] = RxIdle]
    /\ UNCHANGED <<thread, outbound_message_queue, inbound_message_queue, sock,
                   tx, wire, rbuf, link, enqueued, received, rawCount, cause>>
    /\ UNCHANGED appVars

\* line 116: recv() raises an OSError that is no timeout (connection reset)
RecvHeaderError(e) ==
    /\ thread[e] = "alive" /\ pc[e] = "recv_header"
    /\ ~link
    /\ Dies(e, "recv_error")
    /\ UNCHANGED <<should_run, pc, outbound_message_queue, inbound_message_queue, sock, rx,
                   tx, wire, rbuf, link, enqueued, received, rawCount>>
    /\ UNCHANGED appVars

\* lines 134-148: one recv() of the body loop that returns data and, once
\* msglen bytes are there, Message.deserialize and the append
RecvBodyChunk(e) ==
    /\ thread[e] = "alive" /\ pc[e] = "recv_body"
    /\ link /\ rbuf[e] # <<>>
    /\ LET k == Min(Min(rx[e].msglen - rx[e].bytes_recvd, CHUNK_SIZE_BYTES), TotalBytes(rbuf[e]))
           chunks == ConcatRuns(rx[e].chunks, TakeBytes(rbuf[e], k))
           got == rx[e].bytes_recvd + k
           whole == Whole(chunks, "B", Len(chunks[1].f.body))
           d == Deserialize(chunks[1].f.body)
       IN /\ rbuf' = [rbuf EXCEPT ![e] = DropBytes(@, k)]
          /\ IF got < rx[e].msglen
             THEN /\ rx' = [rx EXCEPT ![e].bytes_recvd = got, ![e].chunks = chunks]
                  /\ UNCHANGED <<pc, inbound_message_queue>>
             ELSE /\ rx' = [rx EXCEPT ![e] = RxIdle]
                  /\ pc' = [pc EXCEPT ![e] = "send"]
                  /\ inbound_message_queue' =
                        IF whole /\ d.ok
                        THEN [inbound_message_queue EXCEPT
                                 ![e] = Append(@, Message(rx[e].subj, d.payload))]
                        ELSE inbound_message_queue
    /\ UNCHANGED <<should_run, thread, outbound_message_queue, sock, tx,
                   wire, link, enqueued, received, rawCount, cause>>
    /\ UNCHANGED appVars

\* line 136: recv() returned b'' in the body loop: return False
RecvBodyClosed(e) ==
    /\ thread[e] = "alive" /\ pc[e] = "recv_body"
    /\ AtEOF(e)
    /\ TickFalse(e)
    /\ rx' = [rx EXCEPT ![e] = RxIdle]
    /\ UNCHANGED <<thread, outbound_message_queue, inbound_message_queue, sock,
                   tx, wire, rbuf, link, enqueued, received, rawCount, cause>>
    /\ UNCHANGED appVars

\* line 135: recv() raises in the body loop, where nothing catches
\* socket.timeout nor any other OSError
RecvBodyRaise(e) ==
    /\ thread[e] = "alive" /\ pc[e] = "recv_body"
    /\ \/ /\ link /\ rbuf[e] = <<>> /\ ~AtEOF(e)
          /\ Dies(e, "body_timeout")
       \/ /\ ~link
          /\ Dies(e, "recv_error")
    /\ UNCHANGED <<should_run, pc, outbound_message_queue, inbound_message_queue, sock, rx,
                   tx, wire, rbuf, link, enqueued, received, rawCount>>
    /\ UNCHANGED appVars

\* __send_queue_tick, lines 152-165: pop a message and build its header
SendPop(e) ==
    /\ thread[e] = "alive" /\ pc[e] = "send"
    /\ IF outbound_message_queue[e] = <<>>
       THEN \* line 153: nothing to send, return True
            /\ pc' = [pc EXCEPT ![e] = "loop"]
            /\ UNCHANGED <<outbound_message_queue, tx>>
       ELSE LET m == Head(outbound_message_queue[e])
                f == Frame(m)
            IN /\ outbound_message_queue' = [outbound_message_queue EXCEPT ![e] = Tail(@)]
               /\ IF ~HeaderFits(f)
                  THEN \* lines 159-165: OverflowError, caught: return True
                       /\ pc' = [pc EXCEPT ![e] = "loop"]
                       /\ UNCHANGED tx
                  ELSE /\ pc' = [pc EXCEPT ![e] = "send_header"]
                       /\ tx' = [tx EXCEPT ![e] = [msg |-> m, total |-> 0]]
    /\ UNCHANGED <<should_run, thread, inbound_message_queue, sock, rx,
                   wire, rbuf, link, enqueued, received, rawCount, cause>>
    /\ UNCHANGED appVars

\* lines 168-173: one send() of the header loop that writes k bytes
SendHeaderWrite(e) ==
    /\ thread[e] = "alive" /\ pc[e] = "send_header"
    /\ ~Broken(e)
    /\ LET left == HEADER_LEN_BYTES - tx[e].total
           f == Frame(tx[e].msg)
       IN \E k \in {left} \cup (IF left > SegmentSize THEN {SegmentSize} ELSE {}) :
            /\ wire' = [wire EXCEPT ![Peer(e)] = AppendRun(@, Run(f, "H", tx[e].total, k))]
            /\ IF tx[e].total + k < HEADER_LEN_BYTES
               THEN /\ tx' = [tx EXCEPT ![e].total = @ + k]
                    /\ UNCHANGED pc
               ELSE /\ tx' = [tx EXCEPT ![e].total = 0]
                    /\ pc' = [pc EXCEPT ![e] = IF f.length > 0 THEN "send_body" ELSE "loop"]
    /\ UNCHANGED <<should_run, thread, outbound_message_queue, inbound_message_queue, sock,
                   rx, rbuf, link, enqueued, received, rawCount, cause>>
    /\ UNCHANGED appVars

\* lines 170-172: send() returned 0 in the header loop: the message goes
\* back to the head of the queue, return False
SendHeaderZero(e) ==
    /\ thread[e] = "alive" /\ pc[e] = "send_header"
    /\ Broken(e)
    /\ outbound_message_queue' = [outbound_message_queue EXCEPT ![e] = <<tx[e].msg>> \o @]
    /\ tx' = [tx EXCEPT ![e] = TxIdle]
    /\ TickFalse(e)
    /\ UNCHANGED <<thread, inbound_message_queue, sock, rx,
                   wire, rbuf, link, enqueued, received, rawCount, cause>>
    /\ UNCHANGED appVars

\* line 169: send() raises in the header loop, where nothing catches it
SendHeaderRaise(e) ==
    /\ thread[e] = "alive" /\ pc[e] = "send_header"
    /\ Broken(e)
    /\ Dies(e, "send_error")
    /\ UNCHANGED <<should_run, pc, outbound_message_queue, inbound_message_queue, sock, rx,
                   tx, wire, rbuf, link, enqueued, received, rawCount>>
    /\ UNCHANGED appVars

\* lines 176-184: one send() of the body loop that writes k bytes
SendBodyWrite(e) ==
    /\ thread[e] = "alive" /\ pc[e] = "send_body"
    /\ ~Broken(e)
    /\ LET f == Frame(tx[e].msg)
           left == f.length - tx[e].total
       IN \E k \in {left} \cup (IF left > SegmentSize THEN {SegmentSize} ELSE {}) :
            /\ wire' = [wire EXCEPT ![Peer(e)] = AppendRun(@, Run(f, "B", tx[e].total, k))]
            /\ IF tx[e].total + k < f.length
               THEN /\ tx' = [tx EXCEPT ![e].total = @ + k]
                    /\ UNCHANGED pc
               ELSE /\ tx' = [tx EXCEPT ![e] = TxIdle]
                    /\ pc' = [pc EXCEPT ![e] = "loop"]
    /\ UNCHANGED <<should_run, thread, outbound_message_queue, inbound_message_queue, sock,
                   rx, rbuf, link, enqueued, received, rawCount, cause>>
    /\ UNCHANGED appVars

\* lines 177-182: send() raised (sent = 0) or returned 0 in the body loop:
\* the message goes back to the head of the queue, return False
SendBodyFail(e) ==
    /\ thread[e] = "alive" /\ pc[e] = "send_body"
    /\ Broken(e)
    /\ outbound_message_queue' = [outbound_message_queue EXCEPT ![e] = <<tx[e].msg>> \o @]
    /\ tx' = [tx EXCEPT ![e] = TxIdle]
    /\ TickFalse(e)
    /\ UNCHANGED <<thread, inbound_message_queue, sock, rx,
                   wire, rbuf, link, enqueued, received, rawCount, cause>>
    /\ UNCHANGED appVars

(***************************************************************************)
(* ConnectionHandler: the operations its owner calls.                      *)
(***************************************************************************)
\* start(), lines 202-205.  "a" is started only if no raw peer uses its socket.
Start(e) ==
    /\ thread[e] = "none" /\ sock[e] = "open"
    /\ e = "a" => rawCount = 0
    /\ should_run' = [should_run EXCEPT ![e] = TRUE]
    /\ thread' = [thread EXCEPT ![e] = "alive"]
    /\ pc' = [pc EXCEPT ![e] = "loop"]
    /\ UNCHANGED <<outbound_message_queue, inbound_message_queue, sock, rx, tx,
                   wire, rbuf, link, enqueued, received, rawCount, cause>>
    /\ UNCHANGED appVars

\* stop(), lines 207-209 (a blocking caller then waits for the thread)
Stop(e) ==
    /\ should_run[e]
    /\ should_run' = [should_run EXCEPT ![e] = FALSE]
    /\ UNCHANGED <<thread, pc, outbound_message_queue, inbound_message_queue, sock, rx, tx,
                   wire, rbuf, link, enqueued, received, rawCount, cause>>
    /\ UNCHANGED appVars

\* send(message), lines 211-214, called on "a"
Send(m) ==
    /\ rawCount = 0
    /\ Len(enqueued) < MaxSend
    /\ outbound_message_queue' = [outbound_message_queue EXCEPT !["a"] = Append(@, m)]
    /\ enqueued' = Append(enqueued, m)
    /\ UNCHANGED <<should_run, thread, pc, inbound_message_queue, sock, rx, tx,
                   wire, rbuf, link, received, rawCount, cause>>
    /\ UNCHANGED appVars

\* recv(), lines 216-218, returning a message
Recv(e) ==
    /\ inbound_message_queue[e] # <<>>
    /\ received' = [received EXCEPT ![e] = Append(@, Head(inbound_message_queue[e]))]
    /\ inbound_message_queue' = [inbound_message_queue EXCEPT ![e] = Tail(@)]
    /\ UNCHANGED <<should_run, thread, pc, outbound_message_queue, sock, rx, tx,
                   wire, rbuf, link, enqueued, rawCount, cause>>
    /\ UNCHANGED appVars

(***************************************************************************)
(* The network, and a peer that writes "a"'s socket without a handler.     *)
(***************************************************************************)
\* bytes in flight arrive: all of them, or one segment
Deliver(e) ==
    /\ link /\ wire[e] # <<>> /\ sock[e] = "open"
    /\ LET all == TotalBytes(wire[e])
       IN \E k \in {all} \cup (IF all > SegmentSize THEN {SegmentSize} ELSE {}) :
            /\ rbuf' = [rbuf EXCEPT ![e] = ConcatRuns(@, TakeBytes(wire[e], k))]
            /\ wire' = [wire EXCEPT ![e] = DropBytes(@, k)]
    /\ UNCHANGED <<should_run, thread, pc, outbound_message_queue, inbound_message_queue,
                   sock, rx, tx, link, enqueued, received, rawCount, cause>>
    /\ UNCHANGED appVars

\* the connection is reset: what was in flight or unread is gone
LinkBreak ==
    /\ link
    /\ \E e \in Ends : thread[e] = "alive"
    /\ link' = FALSE
    /\ wire' = [e \in Ends |-> <<>>]
    /\ rbuf' = [e \in Ends |-> <<>>]
    /\ UNCHANGED <<should_run, thread, pc, outbound_message_queue, inbound_message_queue,
                   sock, rx, tx, enqueued, received, rawCount, cause>>
    /\ UNCHANGED appVars

\* a peer without a handler writes a frame: a well-formed one, 64 bytes
\* that are no header, or (headerOnly) a header whose body it never sends
RawWrite(f, headerOnly) ==
    /\ thread["a"] = "none" /\ sock["a"] = "open" /\ link
    /\ enqueued = <<>> \/ rawCount > 0
    /\ rawCount < MaxRaw
    /\ headerOnly => f.length > 0
    /\ rawCount' = rawCount + 1
    /\ wire' = [wire EXCEPT !["b"] =
                  LET h == AppendRun(@, Run(f, "H", 0, HEADER_LEN_BYTES))
                  IN IF f.length > 0 /\ ~headerOnly
                     THEN AppendRun(h, Run(f, "B", 0, f.length)) ELSE h]
    /\ enqueued' = IF f.hk = "ok" /\ ~headerOnly
                   THEN Append(enqueued, Message(f.subject, Deserialize(f.body).payload))
                   ELSE enqueued
    /\ UNCHANGED <<should_run, thread, pc, outbound_message_queue, inbound_message_queue,
                   sock, rx, tx, rbuf, link, received, cause>>
    /\ UNCHANGED appVars

\* the raw peer closes its socket
RawClose ==
    /\ thread["a"] = "none" /\ sock["a"] = "open" /\ rawCount > 0
    /\ sock' = [sock EXCEPT !["a"] = "closed"]
    /\ UNCHANGED <<should_run, thread, pc, outbound_message_queue, inbound_message_queue,
                   rx, tx, wire, rbuf, link, enqueued, received, rawCount, cause>>
    /\ UNCHANGED appVars

ConnNext ==
    \/ \E e \in Ends : LoopTop(e)
    \/ \E e \in Ends : RecvHeaderChunk(e)
    \/ \E e \in Ends : RecvHeaderTimeout(e)
    \/ \E e \in Ends : RecvHeaderClosed(e)
    \/ \E e \in Ends : RecvHeaderError(e)
    \/ \E e \in Ends : RecvBodyChunk(e)
    \/ \E e \in Ends : RecvBodyClosed(e)
    \/ \E e \in Ends : RecvBodyRaise(e)
    \/ \E e \in Ends : SendPop(e)
    \/ \E e \in Ends : SendHeaderWrite(e)
    \/ \E e \in Ends : SendHeaderZero(e)
    \/ \E e \in Ends : SendHeaderRaise(e)
    \/ \E e \in Ends : SendBodyWrite(e)
    \/ \E e \in Ends : SendBodyFail(e)
    \/ \E e \in Ends : Start(e)
    \/ \E e \in Ends : Stop(e)
    \/ \E m \in Msgs : Send(m)
    \/ \E e \in Ends : Recv(e)
    \/ \E e \in Ends : Deliver(e)
    \/ LinkBreak
    \/ \E f \in {Frame(m) : m \in Msgs} \cup {BadFrame(k) : k \in BadHeaderKinds} :
          \E headerOnly \in BOOLEAN : RawWrite(f, headerOnly)
    \/ RawClose

\* the same, with send() also called with the messages of BigMsgs
FrameNext ==
    \/ ConnNext
    \/ \E m \in BigMsgs : Send(m)

(***************************************************************************)
(* The codec taken alone: a message is framed as __send_queue_tick frames  *)
(* it, and the bytes of the frame are parsed as __recv_queue_tick parses   *)
(* them.                                                                   *)
(***************************************************************************)
\* longest subject among the messages framed
MaxSubject == 36

RECURSIVE Repeat(_, _)
Repeat(s, n) == IF n = 0 THEN "" ELSE s \o Repeat(s, n - 1)

CodecSubjects == {"", "m1", "say \"hi\"", "a\\b", "negotiation", "shutdown",
                  Repeat("s", MaxSubject - 2), Repeat("s", MaxSubject - 1),
                  Repeat("s", MaxSubject)}
CodecPayloads ==
    { <<>>,
      <<KV("id", StrVal("c1"))>>,
      <<KV("k", StrVal(""))>>,
      <<KV("", StrVal("v"))>>,
      <<KV("q", StrVal("a \"quoted\" \\ word"))>>,
      <<KV("j", StrVal("{\"length\": 2, \"subject\": \"x\"}"))>>,
      <<KV("t", StrVal("true")), KV("n", StrVal("12"))>>,
      <<KV("n", IntVal(0))>>,
      <<KV("n", IntVal(-7)), KV("m", IntVal(1024))>>,
      <<KV("b", BoolVal(TRUE)), KV("c", BoolVal(FALSE))>>,
      <<KV("a b", StrVal("x, y: z}")), KV("n", IntVal(65)), KV("b", BoolVal(TRUE))>>,
      <<KV("length", IntVal(3)), KV("subject", StrVal("other"))>> }
CodecMsgs == {Message(s, p) : s \in CodecSubjects, p \in CodecPayloads}

NoCodec == [st |-> "none", msg |-> NoMsg, frame |-> <<>>, out |-> NoMsg]
CodecIdle == codec = NoCodec
CodecInit == codec \in {[NoCodec EXCEPT !.st = "queued", !.msg = m] : m \in CodecMsgs}

\* __send_queue_tick: the frame is written, or the message is dropped for
\* its header is too long
CodecSend ==
    /\ codec.st = "queued"
    /\ codec' = IF HeaderFits(Frame(codec.msg))
                THEN [codec EXCEPT !.st = "sent", !.frame = FrameBytes(codec.msg)]
                ELSE [codec EXCEPT !.st = "dropped"]
    /\ UNCHANGED <<connVars, objVars, cliVars, srvVars>>

\* __recv_queue_tick: the message is put in the inbound queue, or the frame
\* is skipped
CodecRecv ==
    /\ codec.st = "sent"
    /\ LET r == ParseFrame(codec.frame)
       IN codec' = IF r.ok THEN [codec EXCEPT !.st = "received", !.out = r.msg]
                           ELSE [codec EXCEPT !.st = "skipped"]
    /\ UNCHANGED <<connVars, objVars, cliVars, srvVars>>

CodecNext == CodecSend \/ CodecRecv

(***************************************************************************)
(* ConnectionHandler and socket objects, one message per socket call.      *)
(***************************************************************************)
\* handler (and socket) objects that exist at one time
MaxHandlers == 3
HandlerIds == 1..MaxHandlers

\* ConnectionHandler.__init__, lines 80-92
NewHandler(s) ==
    [should_run |-> FALSE, thread |-> "none", pc |-> "loop",
     out |-> <<>>, inb |-> <<>>, sock |-> s]

\* socket.socket(): st is "fresh", "connected", "unconnected" (a connect that
\* was refused) or "closed"; far is the other end: "none", "open", "closed"
\* or "reset"; inb is what arrived unread, outb what was written; acc is
\* TRUE for a socket that accept() returned
NewSocket == [st |-> "fresh", inb |-> <<>>, outb |-> <<>>, far |-> "none", acc |-> FALSE]

\* the handler objects that are referred to: by the client (self.__conn),
\* by a thread inside stop(), by the server's directory, by the accept
\* thread
Refs(c, loc, dir, ah, sh) ==
    {c} \cup {loc[t].h : t \in DOMAIN loc} \cup {dir[i].h : i \in DOMAIN dir} \cup {ah, sh}
CurRefs == Refs(conn, t_loc, srv_conns, a_loc.h, s_pc.h)

\* a handler object that nothing refers to and whose thread is not running
\* is gone, and with it the socket it made
Gone(hs, refs, h) == h \notin refs /\ hs[h].thread # "alive"
Swept(hs, refs) ==
    [h \in HandlerIds |-> IF Gone(hs, refs, h) THEN NewHandler(h) ELSE hs[h]]
SweptSockets(hs, ss, refs) ==
    [s \in HandlerIds |-> IF Gone(hs, refs, s) /\ ~ss[s].acc THEN NewSocket ELSE ss[s]]

\* ConnectionHandler.running, lines 106-108
running(h) == handlers[h].thread = "alive"

SockOf(h) == sockets[handlers[h].sock]
Usable(s) == sockets[s].st = "connected" /\ sockets[s].far = "open"
\* the far end has closed: what it wrote before can still be read, and a
\* write can still be accepted
HalfOpen(s) == sockets[s].st = "connected" /\ sockets[s].far \in {"open", "closed"}

\* the thread ends: after the loop, lines 197-200, where the socket is shut
\* down and closed (how = "done"), or on an exception that nothing catches
\* (how = "died")
Exit(h, hs, ss, how) ==
    LET hs2 == [hs EXCEPT ![h].thread = how, ![h].pc = "loop"]
        ss2 == IF how = "done" THEN [ss EXCEPT ![hs[h].sock].st = "closed"] ELSE ss
    IN /\ handlers' = Swept(hs2, CurRefs)
       /\ sockets' = SweptSockets(hs2, ss2, CurRefs)

\* __main_loop, line 187 (the loop condition) and lines 197-200 (the exit),
\* as the thread starts
MainLoopTop(h) ==
    /\ handlers[h].thread = "alive" /\ handlers[h].pc = "loop"
    /\ IF handlers[h].should_run
       THEN /\ handlers' = [handlers EXCEPT ![h].pc = "recv"]
            /\ UNCHANGED sockets
       ELSE Exit(h, handlers, sockets, "done")
    /\ UNCHANGED <<connVars, codec, cliVars, srvVars>>

\* __recv_queue_tick receives one frame and appends its message
MainLoopRecv(h) ==
    /\ handlers[h].thread = "alive" /\ handlers[h].pc = "recv"
    /\ HalfOpen(handlers[h].sock) /\ SockOf(h).inb # <<>>
    /\ handlers' = [handlers EXCEPT ![h].inb = Append(@, Head(SockOf(h).inb)),
                                    ![h].pc = "send"]
    /\ sockets' = [sockets EXCEPT ![handlers[h].sock].inb = Tail(@)]
    /\ UNCHANGED <<connVars, codec, cliVars, srvVars>>

\* __recv_queue_tick, line 117: socket.timeout, return True
MainLoopRecvTimeout(h) ==
    /\ handlers[h].thread = "alive" /\ handlers[h].pc = "recv"
    /\ Usable(handlers[h].sock) /\ SockOf(h).inb = <<>>
    /\ handlers' = [handlers EXCEPT ![h].pc = "send"]
    /\ UNCHANGED <<sockets, connVars, codec, cliVars, srvVars>>

\* a tick returned False: line 191, self.stop(blocking=False); continue, and
\* the loop condition, which ends the loop unless start() came in between:
\* lines 197-200
TickFailed(h) ==
    /\ handlers' = [handlers EXCEPT ![h].should_run = FALSE, ![h].pc = "loop"]
    /\ UNCHANGED sockets

\* __recv_queue_tick, line 118: recv() returns b'' (the far end closed, or
\* the socket was shut down under a blocked recv): return False
MainLoopRecvClosed(h) ==
    /\ handlers[h].thread = "alive" /\ handlers[h].pc = "recv"
    /\ \/ SockOf(h).st = "connected" /\ SockOf(h).far = "closed" /\ SockOf(h).inb = <<>>
       \/ SockOf(h).st = "closed"
    /\ TickFailed(h)
    /\ UNCHANGED <<connVars, codec, cliVars, srvVars>>

\* __recv_queue_tick, line 116: recv() raises an OSError that is no timeout
\* (not connected, bad file descriptor, connection reset): nothing catches
\* it, the thread ends without lines 197-200
MainLoopRecvRaise(h) ==
    /\ handlers[h].thread = "alive" /\ handlers[h].pc = "recv"
    /\ \/ SockOf(h).st \in {"fresh", "unconnected", "closed"}
       \/ SockOf(h).st = "connected" /\ SockOf(h).far = "reset"
    /\ Exit(h, handlers, sockets, "died")
    /\ UNCHANGED <<connVars, codec, cliVars, srvVars>>

\* the send tick returned True: back to line 187, the loop condition
TickDone(h, hs, ss) ==
    IF handlers[h].should_run
    THEN /\ handlers' = [hs EXCEPT ![h].pc = "recv"]
         /\ sockets' = ss
    ELSE Exit(h, hs, ss, "done")

\* __send_queue_tick, lines 152-153: nothing queued, return True
MainLoopSendNone(h) ==
    /\ handlers[h].thread = "alive" /\ handlers[h].pc = "send"
    /\ handlers[h].out = <<>>
    /\ TickDone(h, handlers, sockets)
    /\ UNCHANGED <<connVars, codec, cliVars, srvVars>>

\* __send_queue_tick, lines 152-184: one message popped and written in full,
\* return True
MainLoopSend(h) ==
    /\ handlers[h].thread = "alive" /\ handlers[h].pc = "send"
    /\ handlers[h].out # <<>> /\ HalfOpen(handlers[h].sock)
    /\ TickDone(h, [handlers EXCEPT ![h].out = Tail(@)],
                [sockets EXCEPT ![handlers[h].sock].outb = Append(@, Head(handlers[h].out))])
    /\ UNCHANGED <<connVars, codec, cliVars, srvVars>>

\* __send_queue_tick on a socket that cannot be written: either send()
\* returns 0 or raises in the body loop (lines 177-182: the message is put
\* back, return False), or it raises in the header loop (line 169: nothing
\* catches it, the popped message is gone and the thread ends)
MainLoopSendFail(h) ==
    /\ handlers[h].thread = "alive" /\ handlers[h].pc = "send"
    /\ handlers[h].out # <<>> /\ ~Usable(handlers[h].sock)
    /\ \/ TickFailed(h)
       \/ Exit(h, [handlers EXCEPT ![h].out = Tail(@)], sockets, "died")
    /\ UNCHANGED <<connVars, codec, cliVars, srvVars>>

MainLoop(h) ==
    \/ MainLoopTop(h)
    \/ MainLoopRecv(h)
    \/ MainLoopRecvTimeout(h)
    \/ MainLoopRecvClosed(h)
    \/ MainLoopRecvRaise(h)
    \/ MainLoopSendNone(h)
    \/ MainLoopSend(h)
    \/ MainLoopSendFail(h)

\* the index of a handler object that is gone is free for the next
\* ConnectionHandler()
Free(h, refs) == Gone(handlers, refs, h)

(***************************************************************************)
(* Client (client.py).                                                     *)
(***************************************************************************)
\* calls the caller's thread makes
MaxCalls == 3
\* recv-consumer threads that exist at one time
MaxConsumers == 2
\* failed attempts in one reconnect episode
MaxFails == 9
\* messages the server sends
MaxSrvSends == 1
\* connections the server closes or the network loses
MaxDrops == 1

\* __reconnect_wrapper's sleeptime, in tenths of a second: 0.1 and 15
SLEEP_FIRST == 1
SLEEP_CAP == 150

None == "None"

\* ClientState, lines 16-32: a status is the set of its flags
StateFlags ==
    {"NEEDS_INIT", "OK", "RUNNING", "NOT_CONNECTED", "CONNECTING", "CONNECTED",
     "CONNECT_FAILED", "RECONNECTING", "RECONNECT_FAILED", "DISCONNECTING",
     "DISCONNECT_FAILED", "UNEXP_CLOSED"}

Caller == 0
ConsumerIds == 1..MaxConsumers
Threads == {Caller} \cup ConsumerIds

NoSS == [target |-> {}, frm |-> {}, ret |-> ""]
\* a thread's locals: h is the handler stop() was called on, sleeptime and
\* fails are __reconnect_wrapper's wait and the attempts that failed in this
\* episode, did_err is disconnect()'s, ret is what the last call returned
NoLoc == [h |-> 0, sleeptime |-> 0, fails |-> 0, did_err |-> FALSE, ret |-> "none",
          arg |-> <<>>]

NEGOTIATION(id) == Message("negotiation", <<KV("id", StrVal(id))>>)
SHUTDOWN == Message("shutdown", <<>>)
ECHO == Message("echo", <<KV("k", StrVal("v"))>>)

\* the server accepts connections: since before the client was made ("up")
\* or since later ("late")
Listening == listening # "down"

\* __check_inited, lines 93-97
Inited(f) == f.address # None /\ f.port # None /\ f.client_id # None
\* lines 248 and 328
WantsBind(f) == f.bind_port # None /\ f.interface # None

\* bind() is called and raises an OSError: one of the losses the network
\* is allowed
BindFails == WantsBind(fields) /\ drops < MaxDrops /\ drops' = drops + 1

\* Client.__init__, lines 64-85, followed by the assignment of address,
\* port and client_id, and of the bind fields or not
ClientConfigured(l) ==
    /\ attempt_reconnect \in BOOLEAN
    /\ fields \in
         { [address |-> "127.0.0.1", port |-> "30000", client_id |-> "abc123",
            interface |-> None, bind_port |-> None],
           [address |-> "127.0.0.1", port |-> "30000", client_id |-> "abc123",
            interface |-> "0.0.0.0", bind_port |-> "40000"] }
    /\ conn = 0
    /\ state = IF Inited(fields) THEN {"NOT_CONNECTED"} ELSE {"NEEDS_INIT", "NOT_CONNECTED"}
    /\ recv_consumer_should_run = FALSE
    /\ recv_consumer_thread = 0
    /\ t_pc = [t \in Threads |-> IF t = Caller THEN "idle" ELSE "none"]
    /\ t_ss = [t \in Threads |-> NoSS]
    /\ t_loc = [t \in Threads |-> NoLoc]
    /\ calls = <<>>
    /\ ev = [connect |-> 0, disconnect |-> 0, reconnect |-> 0, servershutdown |-> 0,
             message |-> 0]
    /\ sc_last = <<>>
    /\ listening = l
    /\ srv_sent = 0
    /\ drops = 0

ClientInit == ClientConfigured("up")
\* the same client while the server is down
ClientInitDown == ClientConfigured("down")

\* the state of a Client in the specifications that have none
ClientIdle ==
    /\ attempt_reconnect = TRUE
    /\ fields = [address |-> None, port |-> None, client_id |-> None,
                 interface |-> None, bind_port |-> None]
    /\ conn = 0
    /\ state = {"NEEDS_INIT", "NOT_CONNECTED"}
    /\ recv_consumer_should_run = FALSE
    /\ recv_consumer_thread = 0
    /\ t_pc = [t \in Threads |-> IF t = Caller THEN "idle" ELSE "none"]
    /\ t_ss = [t \in Threads |-> NoSS]
    /\ t_loc = [t \in Threads |-> NoLoc]
    /\ calls = <<>>
    /\ ev = [connect |-> 0, disconnect |-> 0, reconnect |-> 0, servershutdown |-> 0,
             message |-> 0]
    /\ sc_last = <<>>
    /\ listening = "down"
    /\ srv_sent = 0
    /\ drops = 0

ObjInit ==
    /\ handlers = [h \in HandlerIds |-> NewHandler(h)]
    /\ sockets = [h \in HandlerIds |-> NewSocket]

\* ---- helpers
Goto(t, p) == t_pc' = [t_pc EXCEPT ![t] = p]

\* a call of __set_state(target) that returns to ret: lines 194-195, the
\* no-op check under the lock
CallSetState(t, target, ret) ==
    IF state = target
    THEN /\ t_pc' = [t_pc EXCEPT ![t] = ret]
         /\ t_ss' = [t_ss EXCEPT ![t] = NoSS]
    ELSE /\ t_pc' = [t_pc EXCEPT ![t] = "ss_read"]
         /\ t_ss' = [t_ss EXCEPT ![t] = [target |-> target, frm |-> {}, ret |-> ret]]

\* self.__conn = connection.ConnectionHandler()
FreshHandler == CHOOSE h \in HandlerIds : Free(h, CurRefs)
CanAllocate == \E h \in HandlerIds : Free(h, CurRefs)

\* the handlers and sockets once the client refers to handler c only, and
\* its threads have the locals loc
Drop(c, loc) ==
    LET refs == Refs(c, loc, srv_conns, a_loc.h, s_pc.h)
    IN /\ handlers' = Swept(handlers, refs)
       /\ sockets' = SweptSockets(handlers, sockets, refs)

\* self.__conn = connection.ConnectionHandler(): the new handler, its
\* socket, and the handler that self.__conn referred to before
Replace(c) ==
    LET refs == Refs(c, t_loc, srv_conns, a_loc.h, s_pc.h)
        hs == [handlers EXCEPT ![c] = NewHandler(c)]
        ss == [sockets EXCEPT ![c] = NewSocket]
    IN /\ conn' = c
       /\ handlers' = Swept(hs, refs)
       /\ sockets' = SweptSockets(hs, ss, refs)

\* the kinds of callback: one that returns, one that raises, one that never
\* returns
CallbackKinds == {"returns", "raises", "hangs"}
Events == {"connect", "disconnect", "reconnect", "servershutdown", "message", "statechange"}

\* Client.__init__, line 80: nothing is subscribed
NoSubscribers == callbacks = [e \in Events |-> <<>>] /\ cb_threads = <<>>

\* Client.__init__ followed by the calls of subscribe(), lines 181-186
Subscribed ==
    /\ callbacks = [e \in Events |->
                       CASE e = "connect" -> <<"raises", "hangs", "returns">>
                         [] e = "disconnect" -> <<"hangs", "raises">>
                         [] e = "message" -> <<"returns", "hangs">>
                         [] e = "statechange" -> <<"hangs">>
                         [] OTHER -> <<>>]
    /\ cb_threads = <<>>

SpawnFirst(e) ==
    IF callbacks[e] = <<>> THEN <<>>
    ELSE <<[event |-> e, cb |-> 1, kind |-> callbacks[e][1], st |-> "running"]>>

\* lines 173-177: a thread per callback of the event, started in the order
\* of subscription
Spawn(e) ==
    [n \in 1..Len(callbacks[e]) |->
        [event |-> e, cb |-> n, kind |-> callbacks[e][n], st |-> "running"]]

\* __trigger, lines 172-179
Trigger(e) == cb_threads' = cb_threads \o Spawn(e) /\ UNCHANGED callbacks

FiredTwice(e) == ev' = [ev EXCEPT ![e] = @ + 2] /\ Trigger(e)

\* __trigger, lines 172-179: the event is dispatched to its subscribers
Fired(e) == ev' = [ev EXCEPT ![e] = @ + 1] /\ Trigger(e)

(***************************************************************************)
(* __set_state, lines 196-201, by any thread, after the no-op check: the    *)
(* lock is taken and released in each step.                                *)
(***************************************************************************)
\* line 197: ClientStateTransition(self.state, state)
SetStateRead(t) ==
    /\ t_pc[t] = "ss_read"
    /\ t_ss' = [t_ss EXCEPT ![t].frm = state]
    /\ Goto(t, "ss_write")
    /\ UNCHANGED <<attempt_reconnect, fields, conn, state, recv_consumer_should_run,
                   recv_consumer_thread, t_loc, calls, ev, callbacks, cb_threads, sc_last, listening, srv_sent,
                   drops, objVars, connVars, codec, srvVars>>

\* lines 199-201: the write, and the statechange event
SetStateWrite(t) ==
    /\ t_pc[t] = "ss_write"
    /\ state' = t_ss[t].target
    /\ sc_last' = <<t_ss[t].frm, t_ss[t].target>>
    /\ Goto(t, t_ss[t].ret)
    /\ t_ss' = [t_ss EXCEPT ![t] = NoSS]
    /\ Trigger("statechange")
    /\ UNCHANGED <<attempt_reconnect, fields, conn, recv_consumer_should_run,
                   recv_consumer_thread, t_loc, calls, ev, listening, srv_sent,
                   drops, objVars, connVars, codec, srvVars>>

(***************************************************************************)
(* The caller's thread: the setters.                                       *)
(***************************************************************************)
SetFieldNowhere(f, v) ==
    /\ t_pc[Caller] = "idle" /\ Len(calls) < MaxCalls
    /\ calls' = Append(calls, "set")
    /\ t_loc' = [t_loc EXCEPT ![Caller] = [NoLoc EXCEPT !.arg = <<f, v>>]]
    /\ Goto(Caller, "check_inited")
    /\ UNCHANGED <<attempt_reconnect, fields, conn, state, recv_consumer_should_run,
                   recv_consumer_thread, t_ss, ev, callbacks, cb_threads, sc_last, listening, srv_sent,
                   drops, objVars, connVars, codec, srvVars>>

\* the client_id property, lines 131-133: return self.__address
client_id == fields.address

\* the property setters, lines 113-170: the RUNNING check, int() of a port,
\* the assignment
SetField(f, v) ==
    /\ t_pc[Caller] = "idle" /\ Len(calls) < MaxCalls
    /\ calls' = Append(calls, "set")
    /\ IF "RUNNING" \in state \/ (f \in {"port", "bind_port"} /\ v \in {None, "abc"})
       THEN \* raises: nothing is assigned
            /\ t_loc' = [t_loc EXCEPT ![Caller] =
                            [NoLoc EXCEPT !.ret = "raised", !.arg = <<f, v>>]]
            /\ UNCHANGED <<fields, t_pc>>
       ELSE /\ fields' = [fields EXCEPT ![f] = v]
            /\ t_loc' = [t_loc EXCEPT ![Caller] = [NoLoc EXCEPT !.arg = <<f, v>>]]
            /\ Goto(Caller, "check_inited")
    /\ UNCHANGED <<attempt_reconnect, conn, state, recv_consumer_should_run,
                   recv_consumer_thread, t_ss, ev, callbacks, cb_threads, sc_last, listening, srv_sent,
                   drops, objVars, connVars, codec, srvVars>>

\* __check_inited writing the NEEDS_INIT flag alone instead of adding it to
\* the status
CheckInitedBare ==
    /\ t_pc[Caller] = "check_inited"
    /\ CallSetState(Caller,
                    IF Inited(fields) THEN state \ {"NEEDS_INIT"}
                                      ELSE {"NEEDS_INIT"},
                    "idle")
    /\ UNCHANGED <<attempt_reconnect, fields, conn, state, recv_consumer_should_run,
                   recv_consumer_thread, t_loc, calls, ev, callbacks, cb_threads, sc_last, listening, srv_sent,
                   drops, objVars, connVars, codec, srvVars>>

\* __check_inited, lines 92-101
CheckInited ==
    /\ t_pc[Caller] = "check_inited"
    /\ CallSetState(Caller,
                    IF Inited(fields) THEN state \ {"NEEDS_INIT"}
                                      ELSE state \cup {"NEEDS_INIT"},
                    "idle")
    /\ UNCHANGED <<attempt_reconnect, fields, conn, state, recv_consumer_should_run,
                   recv_consumer_thread, t_loc, calls, ev, callbacks, cb_threads, sc_last, listening, srv_sent,
                   drops, objVars, connVars, codec, srvVars>>

\* client.attempt_reconnect = b (a public attribute, line 66)
SetAttemptReconnect(b) ==
    /\ t_pc[Caller] = "idle" /\ Len(calls) < MaxCalls
    /\ b # attempt_reconnect
    /\ calls' = Append(calls, "set")
    /\ attempt_reconnect' = b
    /\ UNCHANGED <<fields, conn, state, recv_consumer_should_run, recv_consumer_thread,
                   t_pc, t_ss, t_loc, ev, callbacks, cb_threads, sc_last, listening, srv_sent,
                   drops, objVars, connVars, codec, srvVars>>

(***************************************************************************)
(* connect(), lines 226-299, on the caller's thread.                       *)
(***************************************************************************)
Return(v) == t_loc' = [t_loc EXCEPT ![Caller] = [NoLoc EXCEPT !.ret = v]]

\* __fail_connect, lines 228-231: the status, then self.__conn = None
FailConnect(unexpected) ==
    CallSetState(Caller,
                 (IF unexpected THEN {"UNEXP_CLOSED"} ELSE {})
                     \cup {"CONNECT_FAILED", "NOT_CONNECTED"},
                 "c_fail_clear")

\* connect() without the test of lines 240-242
ConnectUnchecked ==
    /\ t_pc[Caller] = "idle" /\ Len(calls) < MaxCalls
    /\ calls' = Append(calls, "connect")
    /\ IF ~Inited(fields)
       THEN Return("raised") /\ UNCHANGED <<t_pc, t_ss>>
       ELSE IF "NEEDS_INIT" \in state
            THEN Return("False") /\ UNCHANGED <<t_pc, t_ss>>
            ELSE Return("none") /\ CallSetState(Caller, {"OK", "CONNECTING"}, "c_new")
    /\ UNCHANGED <<attempt_reconnect, fields, conn, state, recv_consumer_should_run,
                   recv_consumer_thread, ev, callbacks, cb_threads, sc_last, listening, srv_sent,
                   drops, objVars, connVars, codec, srvVars>>

\* lines 233-245: the fields, the NEEDS_INIT and NOT_CONNECTED flags, the
\* status
Connect ==
    /\ t_pc[Caller] = "idle" /\ Len(calls) < MaxCalls
    /\ calls' = Append(calls, "connect")
    /\ IF ~Inited(fields)
       THEN Return("raised") /\ UNCHANGED <<t_pc, t_ss>>
       ELSE IF "NEEDS_INIT" \in state \/ "NOT_CONNECTED" \notin state
            THEN Return("False") /\ UNCHANGED <<t_pc, t_ss>>
            ELSE Return("none") /\ CallSetState(Caller, {"OK", "CONNECTING"}, "c_new")
    /\ UNCHANGED <<attempt_reconnect, fields, conn, state, recv_consumer_should_run,
                   recv_consumer_thread, ev, callbacks, cb_threads, sc_last, listening, srv_sent,
                   drops, objVars, connVars, codec, srvVars>>

\* lines 246-260: the handler, and bind() when an interface and a bind port
\* are set; it can raise an OSError
ConnectNewHandler ==
    /\ t_pc[Caller] = "c_new"
    /\ CanAllocate
    /\ Replace(FreshHandler)
    /\ \/ Goto(Caller, "c_connect") /\ UNCHANGED <<t_ss, drops>>
       \/ BindFails /\ FailConnect(FALSE)
    /\ UNCHANGED <<attempt_reconnect, fields, state, recv_consumer_should_run,
                   recv_consumer_thread, t_loc, calls, ev, callbacks, cb_threads, sc_last, listening,
                   srv_sent, connVars, codec, srvVars>>

\* lines 262-273: connect(). ConnectionRefusedError is logged and the
\* method goes on
ConnectConnect ==
    /\ t_pc[Caller] = "c_connect"
    /\ IF conn = 0
       THEN FailConnect(FALSE) /\ UNCHANGED sockets
       ELSE IF Listening
            THEN /\ sockets' = [sockets EXCEPT ![handlers[conn].sock].st = "connected",
                                               ![handlers[conn].sock].far = "open"]
                 /\ Goto(Caller, "c_start") /\ UNCHANGED t_ss
            ELSE \/ FailConnect(TRUE) /\ UNCHANGED sockets
                 \/ FailConnect(FALSE) /\ UNCHANGED sockets
                 \/ /\ sockets' = [sockets EXCEPT ![handlers[conn].sock].st = "unconnected"]
                    /\ Goto(Caller, "c_start") /\ UNCHANGED t_ss
    /\ UNCHANGED <<attempt_reconnect, fields, conn, state, recv_consumer_should_run,
                   recv_consumer_thread, t_loc, calls, ev, callbacks, cb_threads, sc_last, listening, srv_sent,
                   drops, handlers, connVars, codec, srvVars>>

\* ConnectionHandler.start(), connection.py lines 202-205
Started(h) == [handlers EXCEPT ![h].should_run = TRUE, ![h].thread = "alive",
                               ![h].pc = "loop"]

\* lines 275-293: the handler is started, the negotiation message is
\* queued, then the status
ConnectStart ==
    /\ t_pc[Caller] = "c_start"
    /\ IF conn = 0
       THEN FailConnect(FALSE) /\ UNCHANGED handlers
       ELSE /\ handlers' = [Started(conn) EXCEPT ![conn].out =
                                Append(@, NEGOTIATION(fields.client_id))]
            /\ CallSetState(Caller, {"OK", "CONNECTED"}, "c_thread")
    /\ UNCHANGED <<attempt_reconnect, fields, conn, state, recv_consumer_should_run,
                   recv_consumer_thread, t_loc, calls, ev, callbacks, cb_threads, sc_last, listening, srv_sent,
                   drops, sockets, connVars, codec, srvVars>>

Alive(t) == t_pc[t] \notin {"none", "done", "died"}

\* lines 295-299: the recv-consumer thread and the connect event
ConnectThread ==
    /\ t_pc[Caller] = "c_thread"
    /\ \E t \in ConsumerIds :
         /\ ~Alive(t)
         /\ \A u \in ConsumerIds : ~Alive(u) => t <= u
         /\ recv_consumer_should_run' = TRUE
         /\ recv_consumer_thread' = t
         /\ t_pc' = [t_pc EXCEPT ![t] = "r_running", ![Caller] = "idle"]
         /\ t_loc' = [t_loc EXCEPT ![t] = NoLoc, ![Caller] = [NoLoc EXCEPT !.ret = "True"]]
    /\ Fired("connect")
    /\ UNCHANGED <<attempt_reconnect, fields, conn, state, t_ss, calls, sc_last,
                   listening, srv_sent, drops, objVars, connVars, codec, srvVars>>

\* line 230-231, after __fail_connect's status
ConnectFailClear ==
    /\ t_pc[Caller] = "c_fail_clear"
    /\ conn' = 0
    /\ Return("False")
    /\ Drop(0, t_loc)
    /\ Goto(Caller, "idle")
    /\ UNCHANGED <<attempt_reconnect, fields, state, recv_consumer_should_run,
                   recv_consumer_thread, t_ss, calls, ev, callbacks, cb_threads, sc_last, listening, srv_sent,
                   drops, connVars, codec, srvVars>>

(***************************************************************************)
(* disconnect(), lines 375-418, on the caller's thread.                    *)
(***************************************************************************)
\* disconnect() with the assignment of line 383 made before the test of
\* line 379
DisconnectEager ==
    /\ t_pc[Caller] = "idle" /\ Len(calls) < MaxCalls
    /\ calls' = Append(calls, "disconnect")
    /\ Fired("disconnect")
    /\ attempt_reconnect' = FALSE
    /\ IF "CONNECTED" \notin state
       THEN /\ Return("False")
            /\ UNCHANGED <<t_pc, recv_consumer_should_run>>
       ELSE /\ recv_consumer_should_run' =
                 IF recv_consumer_thread # 0 THEN FALSE ELSE recv_consumer_should_run
            /\ Return("none")
            /\ Goto(Caller, "d_send")
    /\ UNCHANGED <<fields, conn, state, recv_consumer_thread, t_ss, sc_last,
                   listening, srv_sent, drops, objVars, connVars, codec, srvVars>>

\* lines 376-387
Disconnect ==
    /\ t_pc[Caller] = "idle" /\ Len(calls) < MaxCalls
    /\ calls' = Append(calls, "disconnect")
    /\ Fired("disconnect")
    /\ IF "CONNECTED" \notin state
       THEN /\ Return("False")
            /\ UNCHANGED <<t_pc, attempt_reconnect, recv_consumer_should_run>>
       ELSE /\ attempt_reconnect' = FALSE
            /\ recv_consumer_should_run' =
                 IF recv_consumer_thread # 0 THEN FALSE ELSE recv_consumer_should_run
            /\ Return("none")
            /\ Goto(Caller, "d_send")
    /\ UNCHANGED <<fields, conn, state, recv_consumer_thread, t_ss, sc_last,
                   listening, srv_sent, drops, objVars, connVars, codec, srvVars>>

\* lines 389-398: self.__conn.send(Message('shutdown', {}))
DisconnectSend ==
    /\ t_pc[Caller] = "d_send"
    /\ IF conn = 0
       THEN /\ t_loc' = [t_loc EXCEPT ![Caller].did_err = TRUE]
            /\ UNCHANGED handlers
       ELSE /\ handlers' = [handlers EXCEPT ![conn].out = Append(@, SHUTDOWN)]
            /\ UNCHANGED t_loc
    /\ Goto(Caller, "d_stop")
    /\ UNCHANGED <<attempt_reconnect, fields, conn, state, recv_consumer_should_run,
                   recv_consumer_thread, t_ss, calls, ev, callbacks, cb_threads, sc_last, listening, srv_sent,
                   drops, sockets, connVars, codec, srvVars>>

\* lines 400-405: self.__conn.stop(blocking=True), up to the join
DisconnectStop ==
    /\ t_pc[Caller] = "d_stop"
    /\ IF conn = 0
       THEN /\ t_loc' = [t_loc EXCEPT ![Caller].did_err = TRUE]
            /\ Goto(Caller, "d_clear")
            /\ UNCHANGED handlers
       ELSE /\ handlers' = [handlers EXCEPT ![conn].should_run = FALSE]
            /\ t_loc' = [t_loc EXCEPT ![Caller].h = conn]
            /\ Goto(Caller, "d_join")
    /\ UNCHANGED <<attempt_reconnect, fields, conn, state, recv_consumer_should_run,
                   recv_consumer_thread, t_ss, calls, ev, callbacks, cb_threads, sc_last, listening, srv_sent,
                   drops, sockets, connVars, codec, srvVars>>

\* connection.py line 209: self.__thread.join()
DisconnectJoin ==
    /\ t_pc[Caller] = "d_join"
    /\ handlers[t_loc[Caller].h].thread # "alive"
    /\ t_loc' = [t_loc EXCEPT ![Caller].h = 0]
    /\ Drop(conn, [t_loc EXCEPT ![Caller].h = 0])
    /\ Goto(Caller, "d_clear")
    /\ UNCHANGED <<attempt_reconnect, fields, conn, state, recv_consumer_should_run,
                   recv_consumer_thread, t_ss, calls, ev, callbacks, cb_threads, sc_last, listening, srv_sent,
                   drops, connVars, codec, srvVars>>

\* lines 407-414
DisconnectClear ==
    /\ t_pc[Caller] = "d_clear"
    /\ conn' = 0
    /\ CallSetState(Caller,
                    IF t_loc[Caller].did_err THEN {"NOT_CONNECTED", "DISCONNECT_FAILED"}
                                             ELSE {"NOT_CONNECTED", "OK"},
                    "d_joinc")
    /\ Drop(0, t_loc)
    /\ UNCHANGED <<attempt_reconnect, fields, state, recv_consumer_should_run,
                   recv_consumer_thread, t_loc, calls, ev, callbacks, cb_threads, sc_last, listening, srv_sent,
                   drops, connVars, codec, srvVars>>

\* lines 416-418: the recv-consumer is joined
DisconnectJoinConsumer ==
    /\ t_pc[Caller] = "d_joinc"
    /\ recv_consumer_thread # 0 => ~Alive(recv_consumer_thread)
    /\ Return(IF t_loc[Caller].did_err THEN "False" ELSE "True")
    /\ Goto(Caller, "idle")
    /\ UNCHANGED <<attempt_reconnect, fields, conn, state, recv_consumer_should_run,
                   recv_consumer_thread, t_ss, calls, ev, callbacks, cb_threads, sc_last, listening, srv_sent,
                   drops, objVars, connVars, codec, srvVars>>

(***************************************************************************)
(* The recv-consumer thread, lines 203-223.                                *)
(***************************************************************************)
\* line 205, the loop condition, with the new value v of the flag
LoopAgain(v) == IF v THEN "r_running" ELSE "done"

\* line 206: self.__conn.running; on None the AttributeError ends the thread
ConsumerCheckRunning(t) ==
    /\ t_pc[t] = "r_running"
    /\ Goto(t, IF conn = 0 THEN "died" ELSE IF running(conn) THEN "r_recv" ELSE "r_attempt")
    /\ UNCHANGED <<attempt_reconnect, fields, conn, state, recv_consumer_should_run,
                   recv_consumer_thread, t_ss, t_loc, calls, ev, callbacks, cb_threads, sc_last, listening,
                   srv_sent, drops, objVars, connVars, codec, srvVars>>

\* lines 207-211 and __reconnect_wrapper, lines 302-305: with
\* attempt_reconnect off the thread returns, from either test
WrapperStart(t) ==
    /\ t_pc[t] = "r_attempt"
    /\ IF attempt_reconnect
       THEN /\ t_loc' = [t_loc EXCEPT ![t].sleeptime = SLEEP_FIRST, ![t].fails = 0]
            /\ CallSetState(t, {"RECONNECTING", "CONNECTING", "OK"}, "w_wait")
       ELSE /\ Goto(t, "done")
            /\ UNCHANGED <<t_ss, t_loc>>
    /\ UNCHANGED <<attempt_reconnect, fields, conn, state, recv_consumer_should_run,
                   recv_consumer_thread, calls, ev, callbacks, cb_threads, sc_last, listening,
                   srv_sent, drops, objVars, connVars, codec, srvVars>>

\* lines 310-315: a poll of the wait loop finds attempt_reconnect off
WrapperWaitAbort(t) ==
    /\ t_pc[t] = "w_wait"
    /\ ~attempt_reconnect
    /\ CallSetState(t, {"RECONNECT_FAILED", "NOT_CONNECTED"}, "done")
    /\ UNCHANGED <<attempt_reconnect, fields, conn, state, recv_consumer_should_run,
                   recv_consumer_thread, t_loc, calls, ev, callbacks, cb_threads, sc_last, listening,
                   srv_sent, drops, objVars, connVars, codec, srvVars>>

NextSleepUncapped(s) == s * 2

\* line 317: sleeptime = min(sleeptime*2, 15)
NextSleep(s) == Min(s * 2, SLEEP_CAP)

\* __reconnect returns False, line 318: rec_again, the loop goes round
AttemptFailed(t, loc) ==
    /\ t_loc[t].fails < MaxFails
    /\ t_loc' = [loc EXCEPT ![t].fails = @ + 1]
    /\ Goto(t, "w_wait")

\* lines 310-315: the last poll of the wait loop finds attempt_reconnect on;
\* the thread sleeps 0.1 s, after which the timer has expired
WrapperPoll(t) ==
    /\ t_pc[t] = "w_wait"
    /\ attempt_reconnect
    /\ Goto(t, "w_sleep")
    /\ UNCHANGED <<attempt_reconnect, fields, conn, state, recv_consumer_should_run,
                   recv_consumer_thread, t_ss, t_loc, calls, ev, callbacks, cb_threads, sc_last,
                   listening, srv_sent, drops, objVars, connVars, codec, srvVars>>

\* lines 309 and 317: the timer has expired, the wait is doubled;
\* __reconnect, lines 325-340: a new handler, and bind() when an interface
\* and a bind port are set
WrapperAttempt(t) ==
    /\ t_pc[t] = "w_sleep"
    /\ CanAllocate
    /\ Replace(FreshHandler)
    /\ LET loc == [t_loc EXCEPT ![t].sleeptime = NextSleep(@)]
       IN \/ t_loc' = loc /\ Goto(t, "rc_connect") /\ UNCHANGED drops
          \/ BindFails /\ AttemptFailed(t, loc)
    /\ UNCHANGED <<attempt_reconnect, fields, state, recv_consumer_should_run,
                   recv_consumer_thread, t_ss, calls, ev, callbacks, cb_threads, sc_last, listening,
                   srv_sent, connVars, codec, srvVars>>

\* __reconnect, lines 342-351
ReconnectConnect(t) ==
    /\ t_pc[t] = "rc_connect"
    /\ IF conn # 0 /\ Listening
       THEN /\ sockets' = [sockets EXCEPT ![handlers[conn].sock].st = "connected",
                                          ![handlers[conn].sock].far = "open"]
            /\ Goto(t, "rc_start") /\ UNCHANGED t_loc
       ELSE AttemptFailed(t, t_loc) /\ UNCHANGED sockets
    /\ UNCHANGED <<attempt_reconnect, fields, conn, state, recv_consumer_should_run,
                   recv_consumer_thread, t_ss, calls, ev, callbacks, cb_threads, sc_last, listening,
                   srv_sent, drops, handlers, connVars, codec, srvVars>>

\* __reconnect, lines 353-373: the handler is started, the negotiation
\* message is queued; __reconnect_wrapper, line 319: the status
ReconnectStart(t) ==
    /\ t_pc[t] = "rc_start"
    /\ IF conn # 0
       THEN /\ handlers' = [Started(conn) EXCEPT ![conn].out =
                                Append(@, NEGOTIATION(fields.client_id))]
            /\ recv_consumer_should_run' = TRUE
            /\ CallSetState(t, {"OK", "CONNECTED"}, "w_done")
            /\ UNCHANGED t_loc
       ELSE /\ AttemptFailed(t, t_loc)
            /\ UNCHANGED <<handlers, recv_consumer_should_run, t_ss>>
    /\ UNCHANGED <<attempt_reconnect, fields, conn, state, recv_consumer_thread, calls,
                   ev, callbacks, cb_threads, sc_last, listening, srv_sent, drops, sockets, connVars, codec, srvVars>>

WrapperDoneSilent(t) ==
    /\ t_pc[t] = "w_done"
    /\ Goto(t, "r_recv")
    /\ UNCHANGED <<attempt_reconnect, fields, conn, state, recv_consumer_should_run,
                   recv_consumer_thread, t_ss, t_loc, calls, ev, callbacks, cb_threads, sc_last, listening,
                   srv_sent, drops, objVars, connVars, codec, srvVars>>

\* __reconnect_wrapper, lines 320-322
WrapperDone(t) ==
    /\ t_pc[t] = "w_done"
    /\ Fired("reconnect")
    /\ Goto(t, "r_recv")
    /\ UNCHANGED <<attempt_reconnect, fields, conn, state, recv_consumer_should_run,
                   recv_consumer_thread, t_ss, t_loc, calls, sc_last, listening,
                   srv_sent, drops, objVars, connVars, codec, srvVars>>

\* the recv-consumer without the test of line 216: every message goes to the
\* message subscribers
ConsumerRecvAll(t) ==
    /\ t_pc[t] = "r_recv"
    /\ IF conn = 0
       THEN Goto(t, "died") /\ UNCHANGED <<handlers, ev, callbacks, cb_threads>>
       ELSE IF handlers[conn].inb = <<>>
            THEN Goto(t, LoopAgain(recv_consumer_should_run)) /\ UNCHANGED <<handlers, ev, callbacks, cb_threads>>
            ELSE /\ handlers' = [handlers EXCEPT ![conn].inb = Tail(@)]
                 /\ Goto(t, LoopAgain(recv_consumer_should_run)) /\ Fired("message")
    /\ UNCHANGED <<attempt_reconnect, fields, conn, state, recv_consumer_should_run,
                   recv_consumer_thread, t_ss, t_loc, calls, sc_last, listening,
                   srv_sent, drops, sockets, connVars, codec, srvVars>>

\* lines 213-223: self.__conn.recv(), what is done with the message, and
\* the loop condition
ConsumerRecv(t) ==
    /\ t_pc[t] = "r_recv"
    /\ IF conn = 0
       THEN Goto(t, "died") /\ UNCHANGED <<handlers, ev, callbacks, cb_threads>>
       ELSE IF handlers[conn].inb = <<>>
            THEN Goto(t, LoopAgain(recv_consumer_should_run)) /\ UNCHANGED <<handlers, ev, callbacks, cb_threads>>
            ELSE /\ handlers' = [handlers EXCEPT ![conn].inb = Tail(@)]
                 /\ IF Head(handlers[conn].inb).subject = "shutdown"
                    THEN Goto(t, "sd_start") /\ UNCHANGED <<ev, callbacks, cb_threads>>
                    ELSE Goto(t, LoopAgain(recv_consumer_should_run)) /\ Fired("message")
    /\ UNCHANGED <<attempt_reconnect, fields, conn, state, recv_consumer_should_run,
                   recv_consumer_thread, t_ss, t_loc, calls, sc_last, listening,
                   srv_sent, drops, sockets, connVars, codec, srvVars>>

(***************************************************************************)
(* __server_shut_down, lines 420-433, on the recv-consumer thread.         *)
(***************************************************************************)
\* lines 421-424
ShutDownStart(t) ==
    /\ t_pc[t] = "sd_start"
    /\ Fired("servershutdown")
    /\ recv_consumer_should_run' =
         IF recv_consumer_thread # 0 THEN FALSE ELSE recv_consumer_should_run
    /\ Goto(t, "sd_stop")
    /\ UNCHANGED <<attempt_reconnect, fields, conn, state, recv_consumer_thread, t_ss,
                   t_loc, calls, sc_last, listening, srv_sent, drops, objVars, connVars, codec,
                   srvVars>>

\* lines 426-430: self.__conn.stop(blocking=True), up to the join
ShutDownStop(t) ==
    /\ t_pc[t] = "sd_stop"
    /\ IF conn = 0
       THEN Goto(t, "sd_clear") /\ UNCHANGED <<handlers, t_loc>>
       ELSE /\ handlers' = [handlers EXCEPT ![conn].should_run = FALSE]
            /\ t_loc' = [t_loc EXCEPT ![t].h = conn]
            /\ Goto(t, "sd_join")
    /\ UNCHANGED <<attempt_reconnect, fields, conn, state, recv_consumer_should_run,
                   recv_consumer_thread, t_ss, calls, ev, callbacks, cb_threads, sc_last, listening,
                   srv_sent, drops, sockets, connVars, codec, srvVars>>

\* connection.py line 209
ShutDownJoin(t) ==
    /\ t_pc[t] = "sd_join"
    /\ handlers[t_loc[t].h].thread # "alive"
    /\ t_loc' = [t_loc EXCEPT ![t].h = 0]
    /\ Drop(conn, [t_loc EXCEPT ![t].h = 0])
    /\ Goto(t, "sd_clear")
    /\ UNCHANGED <<attempt_reconnect, fields, conn, state, recv_consumer_should_run,
                   recv_consumer_thread, t_ss, calls, ev, callbacks, cb_threads, sc_last, listening,
                   srv_sent, drops, connVars, codec, srvVars>>

\* lines 432-433
ShutDownClear(t) ==
    /\ t_pc[t] = "sd_clear"
    /\ conn' = 0
    /\ CallSetState(t, {"NOT_CONNECTED", "OK"}, "sd_done")
    /\ Drop(0, t_loc)
    /\ UNCHANGED <<attempt_reconnect, fields, state, recv_consumer_should_run,
                   recv_consumer_thread, t_loc, calls, ev, callbacks, cb_threads, sc_last, listening,
                   srv_sent, drops, connVars, codec, srvVars>>

\* __server_shut_down has returned: line 205, the loop condition
ShutDownDone(t) ==
    /\ t_pc[t] = "sd_done"
    /\ Goto(t, LoopAgain(recv_consumer_should_run))
    /\ UNCHANGED <<attempt_reconnect, fields, conn, state, recv_consumer_should_run,
                   recv_consumer_thread, t_ss, t_loc, calls, ev, callbacks, cb_threads, sc_last, listening,
                   srv_sent, drops, objVars, connVars, codec, srvVars>>

(***************************************************************************)
(* The server and the network, seen from the client's sockets.             *)
(***************************************************************************)
\* the server writes a message to a client
FarSend(s) ==
    /\ Usable(s) /\ srv_sent < MaxSrvSends
    /\ srv_sent' = srv_sent + 1
    /\ sockets' = [sockets EXCEPT ![s].inb = Append(@, ECHO)]
    /\ UNCHANGED <<attempt_reconnect, fields, conn, state, recv_consumer_should_run,
                   recv_consumer_thread, t_pc, t_ss, t_loc, calls, ev, callbacks, cb_threads, sc_last,
                   listening, drops, handlers, connVars, codec, srvVars>>

\* Server.stop(), server.py lines 132-134: the shutdown message to a client,
\* and its connection closed
FarShutdown(s) ==
    /\ Usable(s) /\ drops < MaxDrops
    /\ drops' = drops + 1
    /\ sockets' = [sockets EXCEPT ![s].inb = Append(@, SHUTDOWN), ![s].far = "closed"]
    /\ UNCHANGED <<attempt_reconnect, fields, conn, state, recv_consumer_should_run,
                   recv_consumer_thread, t_pc, t_ss, t_loc, calls, ev, callbacks, cb_threads, sc_last,
                   listening, srv_sent, handlers, connVars, codec, srvVars>>

\* the server's end is closed (how = "closed") or the connection is reset
FarClose(s, how) ==
    /\ Usable(s) /\ drops < MaxDrops
    /\ drops' = drops + 1
    /\ sockets' = [sockets EXCEPT ![s].far = how]
    /\ UNCHANGED <<attempt_reconnect, fields, conn, state, recv_consumer_should_run,
                   recv_consumer_thread, t_pc, t_ss, t_loc, calls, ev, callbacks, cb_threads, sc_last,
                   listening, srv_sent, handlers, connVars, codec, srvVars>>

\* a server that was down starts listening
FarListen ==
    /\ listening = "down"
    /\ listening' = "late"
    /\ UNCHANGED <<attempt_reconnect, fields, conn, state, recv_consumer_should_run,
                   recv_consumer_thread, t_pc, t_ss, t_loc, calls, ev, callbacks, cb_threads, sc_last,
                   srv_sent, drops, objVars, connVars, codec, srvVars>>

SetState(t) == SetStateRead(t) \/ SetStateWrite(t)

CallerStep ==
    \/ \E v \in {None, "abc123"} : SetField("client_id", v)
    \/ CheckInited
    \/ \E b \in BOOLEAN : SetAttemptReconnect(b)
    \/ Connect \/ ConnectNewHandler \/ ConnectConnect \/ ConnectStart
    \/ ConnectThread \/ ConnectFailClear
    \/ Disconnect \/ DisconnectSend \/ DisconnectStop
    \/ DisconnectJoin \/ DisconnectClear \/ DisconnectJoinConsumer

ConsumerStep(t) ==
    \/ ConsumerCheckRunning(t)
    \/ WrapperStart(t) \/ WrapperWaitAbort(t) \/ WrapperPoll(t) \/ WrapperAttempt(t)
    \/ ReconnectConnect(t) \/ ReconnectStart(t)
    \/ WrapperDone(t) \/ ConsumerRecv(t)
    \/ ShutDownStart(t) \/ ShutDownStop(t) \/ ShutDownJoin(t) \/ ShutDownClear(t)
    \/ ShutDownDone(t)

FarStep ==
    \/ \E s \in HandlerIds : FarSend(s) \/ FarShutdown(s)
    \/ \E s \in HandlerIds : \E how \in {"closed", "reset"} : FarClose(s, how)

\* a client and a server that is up
ClientNext ==
    \/ CallerStep
    \/ \E t \in Threads : SetState(t)
    \/ \E t \in ConsumerIds : ConsumerStep(t)
    \/ \E h \in HandlerIds : MainLoop(h)
    \/ FarStep

\* a client that calls connect() and sets attempt_reconnect, and a server
\* that is down and comes up
\* int(port) at lines 151 and 166 raises for None and for "abc"; the digit
\* strings stand for the numbers they convert to
ValidValue(f, v) == ~(f \in {"port", "bind_port"} /\ v \in {None, "abc"})

\* a callback's thread runs the callback to its end: it returns, or it
\* raises and the exception ends the thread; a callback that hangs has no end
CallbackRun(n) ==
    /\ cb_threads[n].st = "running" /\ cb_threads[n].kind # "hangs"
    /\ cb_threads' = [cb_threads EXCEPT
                         ![n].st = IF cb_threads[n].kind = "raises" THEN "raised"
                                                                    ELSE "returned"]
    /\ UNCHANGED <<attempt_reconnect, fields, conn, state, recv_consumer_should_run,
                   recv_consumer_thread, t_pc, t_ss, t_loc, calls, ev, callbacks, sc_last,
                   listening, srv_sent, drops, objVars, connVars, codec, srvVars>>

\* a client with subscribers
CallbacksNext ==
    \/ ClientNext
    \/ \E n \in DOMAIN cb_threads : CallbackRun(n)

\* the values the setters are called with
FieldValues(f) ==
    CASE f = "address" -> {None, "127.0.0.1"}
      [] f = "port" -> {None, "abc", "30000"}
      [] f = "client_id" -> {None, "abc123"}
      [] f = "interface" -> {None, "0.0.0.0"}
      [] OTHER -> {None, "abc", "40000"}

\* a client that is being configured: the setters, and connect()
SettersNext ==
    \/ \E f \in DOMAIN fields : \E v \in FieldValues(f) : SetField(f, v)
    \/ CheckInited
    \/ SetState(Caller)

OutageNext ==
    \/ Connect \/ ConnectNewHandler \/ ConnectConnect \/ ConnectStart
    \/ ConnectThread \/ ConnectFailClear
    \/ SetAttemptReconnect(FALSE)
    \/ \E t \in Threads : SetState(t)
    \/ \E t \in ConsumerIds :
         \/ ConsumerCheckRunning(t)
         \/ WrapperStart(t) \/ WrapperWaitAbort(t) \/ WrapperPoll(t) \/ WrapperAttempt(t)
         \/ ReconnectConnect(t) \/ ReconnectStart(t)
         \/ WrapperDone(t) \/ ConsumerRecv(t)
    \/ \E h \in HandlerIds : MainLoop(h)
    \/ \E s \in HandlerIds : FarSend(s)
    \/ \E s \in HandlerIds : \E how \in {"closed", "reset"} : FarClose(s, how)
    \/ FarListen

(***************************************************************************)
(* Server and ClientHandler (server.py).                                   *)
(***************************************************************************)
\* calls of start(), stop() and send() on the server
MaxSrvCalls == 3
\* connections clients make, and connections they close or lose
MaxCliConns == 2
MaxCliCloses == 1

ClientIdSet == {"abc123", "xyz789"}
HELLO == Message("hello", <<KV("id", StrVal("abc123"))>>)

NOID == Message("negotiation", <<>>)
EMPTYID == NEGOTIATION("")

\* ClientHandler.__init__, lines 26-29: the id a first message carries, None
\* where the subject is another, the payload has no id or the id is empty
NegotiatedId(msg) ==
    IF /\ msg.subject = "negotiation" /\ msg.payload # <<>> /\ msg.payload[1].k = "id"
       /\ msg.payload[1].v.s # ""
    THEN msg.payload[1].v.s ELSE None

NoALoc == [sock |-> 0, h |-> 0]
\* the thread that calls start(), stop() and send(): where it is, the
\* locals of stop() and send() (i, h, n), the arguments of the send() it
\* is in or made last (to, m), and how its last call ended (ret)
SrvIdle == [pc |-> "idle", i |-> 0, h |-> 0, n |-> 0, to |-> None, m |-> NoMsg, ret |-> "none"]
SrvReturned(v) == [SrvIdle EXCEPT !.ret = v]

\* Server.__init__, lines 47-61, with interface and port assigned
ServerInit ==
    /\ srv_should_run = FALSE
    /\ accept_socket = "none"
    /\ srv_conns = <<>>
    /\ client_ids = [h \in HandlerIds |-> None]
    /\ accept_thread = "none"
    /\ a_pc = "loop"
    /\ a_loc = NoALoc
    /\ backlog = <<>>
    /\ s_pc = SrvIdle
    /\ s_hist = [calls |-> 0, conns |-> 0, closes |-> 0, notified |-> <<>>,
                 sent |-> [id \in ClientIdSet |-> <<>>],
                 owner |-> [s \in HandlerIds |-> None]]

\* self.__conns: the ids, and the handler of an id
ConnIds == {srv_conns[i].id : i \in DOMAIN srv_conns}
ConnOf(id) == (CHOOSE i \in DOMAIN srv_conns : srv_conns[i].id = id)
HandlerOf(id) == srv_conns[ConnOf(id)].h

\* __set_should_run, lines 99-108
SetShouldRun(val) ==
    IF srv_should_run = val
    THEN UNCHANGED <<srv_should_run, s_hist>>
    ELSE /\ srv_should_run' = val
         /\ s_hist' = [s_hist EXCEPT !.notified = Append(@, <<~val, val>>),
                                     !.calls = @ + 1]

\* start(), lines 110-123, on a stopped server. A thread object starts
\* once: the second start() of self.__accept_thread raises RuntimeError
ServerStart ==
    /\ s_pc.pc = "idle" /\ s_hist.calls < MaxSrvCalls
    /\ ~srv_should_run
    /\ accept_socket' = "listening"
    /\ SetShouldRun(TRUE)
    /\ IF accept_thread = "none"
       THEN accept_thread' = "alive" /\ a_pc' = "loop" /\ s_pc' = SrvReturned("True")
       ELSE s_pc' = SrvReturned("raised") /\ UNCHANGED <<accept_thread, a_pc>>
    /\ UNCHANGED <<srv_conns, client_ids, a_loc, backlog, objVars, cliVars, connVars, codec>>

\* stop(), lines 127-128, up to the join; joining a thread that was never
\* started raises RuntimeError
ServerStop ==
    /\ s_pc.pc = "idle" /\ s_hist.calls < MaxSrvCalls
    /\ srv_should_run
    /\ SetShouldRun(FALSE)
    /\ s_pc' = [SrvIdle EXCEPT !.pc = "join"]
    /\ UNCHANGED <<accept_socket, srv_conns, client_ids, accept_thread, a_pc, a_loc,
                   backlog, objVars, cliVars, connVars, codec>>

\* stop(), lines 128-130: the accept thread has ended, the socket is closed
ServerStopJoin ==
    /\ s_pc.pc = "join"
    /\ accept_thread # "alive"
    /\ accept_socket' = "closed"
    /\ s_pc' = [s_pc EXCEPT !.pc = "conns", !.i = 1]
    /\ UNCHANGED <<srv_should_run, srv_conns, client_ids, accept_thread, a_pc, a_loc,
                   backlog, s_hist, objVars, cliVars, connVars, codec>>

\* stop(), lines 132-134: the shutdown message, and conn.stop() up to its
\* join; after the last handler, line 136
ServerStopConn ==
    /\ s_pc.pc = "conns"
    /\ IF s_pc.i > Len(srv_conns)
       THEN s_pc' = SrvReturned("True") /\ UNCHANGED handlers
       ELSE /\ handlers' = [handlers EXCEPT ![srv_conns[s_pc.i].h].out = Append(@, SHUTDOWN),
                                            ![srv_conns[s_pc.i].h].should_run = FALSE]
            /\ s_pc' = [s_pc EXCEPT !.pc = "conn_join", !.h = srv_conns[s_pc.i].h]
    /\ s_hist' = IF s_pc.i > Len(srv_conns) THEN s_hist
                 ELSE [s_hist EXCEPT !.sent[srv_conns[s_pc.i].id] = Append(@, SHUTDOWN)]
    /\ UNCHANGED <<srv_should_run, accept_socket, srv_conns, client_ids, accept_thread,
                   a_pc, a_loc, backlog, sockets, cliVars, connVars, codec>>

ServerStopConnNoJoin ==
    /\ s_pc.pc = "conn_join"
    /\ s_pc' = [s_pc EXCEPT !.pc = "conns", !.i = @ + 1, !.h = 0]
    /\ UNCHANGED <<srv_should_run, accept_socket, srv_conns, client_ids, accept_thread,
                   a_pc, a_loc, backlog, s_hist, objVars, cliVars, connVars, codec>>

\* connection.py line 209
ServerStopConnJoin ==
    /\ s_pc.pc = "conn_join"
    /\ handlers[s_pc.h].thread # "alive"
    /\ s_pc' = [s_pc EXCEPT !.pc = "conns", !.i = @ + 1, !.h = 0]
    /\ UNCHANGED <<srv_should_run, accept_socket, srv_conns, client_ids, accept_thread,
                   a_pc, a_loc, backlog, s_hist, objVars, cliVars, connVars, codec>>

ServerSendToAll(to, msg) ==
    /\ s_pc.pc = "idle" /\ s_hist.calls < MaxSrvCalls
    /\ to # "*"
    /\ handlers' = [h \in HandlerIds |->
                      IF \E i \in DOMAIN srv_conns : srv_conns[i].h = h
                      THEN [handlers[h] EXCEPT !.out = Append(@, msg)] ELSE handlers[h]]
    /\ s_hist' = [s_hist EXCEPT !.calls = @ + 1]
    /\ s_pc' = [SrvReturned("True") EXCEPT !.to = to, !.m = msg]
    /\ UNCHANGED <<srv_should_run, accept_socket, srv_conns, client_ids, accept_thread,
                   a_pc, a_loc, backlog, sockets, cliVars, connVars, codec>>

\* send(to, msg) with an id, lines 144-148
ServerSend(to, msg) ==
    /\ s_pc.pc = "idle" /\ s_hist.calls < MaxSrvCalls
    /\ to # "*"
    /\ IF to \in ConnIds
       THEN /\ handlers' = [handlers EXCEPT ![HandlerOf(to)].out = Append(@, msg)]
            /\ s_hist' = [s_hist EXCEPT !.calls = @ + 1, !.sent[to] = Append(@, msg)]
            /\ s_pc' = [SrvReturned("True") EXCEPT !.to = to, !.m = msg]
       ELSE /\ s_hist' = [s_hist EXCEPT !.calls = @ + 1]
            /\ s_pc' = [SrvReturned("False") EXCEPT !.to = to, !.m = msg]
            /\ UNCHANGED handlers
    /\ UNCHANGED <<srv_should_run, accept_socket, srv_conns, client_ids, accept_thread,
                   a_pc, a_loc, backlog, sockets, cliVars, connVars, codec>>

\* send('*', msg), lines 140-142: the loop over self.__conns.values() begins
ServerBroadcast(msg) ==
    /\ s_pc.pc = "idle" /\ s_hist.calls < MaxSrvCalls
    /\ s_hist' = [s_hist EXCEPT !.calls = @ + 1]
    /\ s_pc' = [SrvIdle EXCEPT !.pc = "bcast", !.i = 1, !.n = Len(srv_conns),
                               !.to = "*", !.m = msg]
    /\ UNCHANGED <<srv_should_run, accept_socket, srv_conns, client_ids, accept_thread,
                   a_pc, a_loc, backlog, objVars, cliVars, connVars, codec>>

\* lines 141-142: the iterator's next value and conn.send(msg); the
\* iterator of a dict raises RuntimeError once the dict has changed size;
\* after the last value, line 148
ServerBroadcastNext ==
    /\ s_pc.pc = "bcast"
    /\ IF Len(srv_conns) # s_pc.n
       THEN /\ s_pc' = [SrvReturned("raised") EXCEPT !.to = "*", !.m = s_pc.m]
            /\ UNCHANGED <<handlers, s_hist>>
       ELSE IF s_pc.i > Len(srv_conns)
       THEN /\ s_pc' = [SrvReturned("True") EXCEPT !.to = "*", !.m = s_pc.m]
            /\ UNCHANGED <<handlers, s_hist>>
       ELSE /\ handlers' = [handlers EXCEPT ![srv_conns[s_pc.i].h].out = Append(@, s_pc.m)]
            /\ s_hist' = [s_hist EXCEPT !.sent[srv_conns[s_pc.i].id] = Append(@, s_pc.m)]
            /\ s_pc' = [s_pc EXCEPT !.i = @ + 1]
    /\ UNCHANGED <<srv_should_run, accept_socket, srv_conns, client_ids, accept_thread,
                   a_pc, a_loc, backlog, sockets, cliVars, connVars, codec>>

(***************************************************************************)
(* The accept thread, lines 150-173.                                       *)
(***************************************************************************)
\* line 168
AcceptLoop ==
    /\ accept_thread = "alive" /\ a_pc = "loop"
    /\ IF srv_should_run
       THEN a_pc' = "accept" /\ UNCHANGED accept_thread
       ELSE accept_thread' = "done" /\ UNCHANGED a_pc
    /\ UNCHANGED <<srv_should_run, accept_socket, srv_conns, client_ids, a_loc, backlog,
                   s_pc, s_hist, objVars, cliVars, connVars, codec>>

\* line 171: accept() returns a connection, or times out (line 173)
Accept ==
    /\ accept_thread = "alive" /\ a_pc = "accept"
    /\ IF backlog # <<>>
       THEN /\ a_loc' = [a_loc EXCEPT !.sock = Head(backlog)]
            /\ backlog' = Tail(backlog)
            /\ a_pc' = "n_new"
       ELSE /\ a_pc' = "loop"
            /\ UNCHANGED <<a_loc, backlog>>
    /\ UNCHANGED <<srv_should_run, accept_socket, srv_conns, client_ids, accept_thread,
                   s_pc, s_hist, objVars, cliVars, connVars, codec>>

\* line 152 and ClientHandler.__init__, lines 19-20: a handler on the
\* accepted socket, started
NegotiateNew ==
    /\ accept_thread = "alive" /\ a_pc = "n_new"
    /\ \E h \in HandlerIds :
         /\ Free(h, CurRefs)
         /\ \A g \in HandlerIds : Free(g, CurRefs) => h <= g
         /\ handlers' = [handlers EXCEPT ![h] =
                           [NewHandler(a_loc.sock) EXCEPT !.should_run = TRUE,
                                                          !.thread = "alive"]]
         /\ client_ids' = [client_ids EXCEPT ![h] = None]
         /\ a_loc' = [a_loc EXCEPT !.h = h]
    /\ a_pc' = "n_wait"
    /\ UNCHANGED <<srv_should_run, accept_socket, srv_conns, accept_thread, backlog,
                   s_pc, s_hist, sockets, cliVars, connVars, codec>>

\* ClientHandler.__init__, lines 24-31: wait_for_recv(5.0) and the checks
NegotiateWait ==
    /\ accept_thread = "alive" /\ a_pc = "n_wait"
    /\ LET h == a_loc.h
           msg == Head(handlers[h].inb)
       IN IF handlers[h].inb = <<>>
          THEN \* the timeout expires
               UNCHANGED <<handlers, client_ids>>
          ELSE /\ handlers' = [handlers EXCEPT ![h].inb = Tail(@)]
               /\ client_ids' = [client_ids EXCEPT ![h] =
                                   NegotiatedId(msg)]
    /\ a_pc' = "n_check"
    /\ UNCHANGED <<srv_should_run, accept_socket, srv_conns, accept_thread, a_loc,
                   backlog, s_pc, s_hist, sockets, cliVars, connVars, codec>>

\* the negotiation with line 165 for a known id too: the entry gets the new
\* handler
NegotiateCheckReplace ==
    /\ accept_thread = "alive" /\ a_pc = "n_check"
    /\ LET h == a_loc.h
           id == client_ids[h]
       IN IF id = None
          THEN /\ handlers' = [handlers EXCEPT ![h].should_run = FALSE]
               /\ UNCHANGED srv_conns
          ELSE /\ srv_conns' = IF id \in ConnIds
                                THEN [srv_conns EXCEPT ![ConnOf(id)].h = h]
                                ELSE Append(srv_conns, [id |-> id, h |-> h])
               /\ UNCHANGED handlers
    /\ a_pc' = "loop" /\ a_loc' = NoALoc
    /\ UNCHANGED <<srv_should_run, accept_socket, client_ids, accept_thread, backlog,
                   s_pc, s_hist, sockets, cliVars, connVars, codec>>

\* lines 154-165, up to reopen_with
NegotiateCheck ==
    /\ accept_thread = "alive" /\ a_pc = "n_check"
    /\ LET h == a_loc.h
           id == client_ids[h]
       IN IF id = None
          THEN /\ handlers' = [handlers EXCEPT ![h].should_run = FALSE]
               /\ a_pc' = "loop" /\ a_loc' = NoALoc
               /\ UNCHANGED srv_conns
          ELSE IF id \in ConnIds
               THEN /\ handlers' = [handlers EXCEPT ![h].should_run = FALSE]
                    /\ a_pc' = "n_reopen"
                    /\ UNCHANGED <<srv_conns, a_loc>>
               ELSE /\ srv_conns' = Append(srv_conns, [id |-> id, h |-> h])
                    /\ a_pc' = "loop" /\ a_loc' = NoALoc
                    /\ UNCHANGED handlers
    /\ UNCHANGED <<srv_should_run, accept_socket, client_ids, accept_thread, backlog,
                   s_pc, s_hist, sockets, cliVars, connVars, codec>>

\* line 162 and reopen_with, lines 37-40: the sock setter (connection.py
\* lines 98-104) raises when the handler is running, and nothing in the
\* accept thread catches it
NegotiateReopen ==
    /\ accept_thread = "alive" /\ a_pc = "n_reopen"
    /\ LET e == HandlerOf(client_ids[a_loc.h])
       IN IF handlers[e].should_run \/ running(e)
          THEN /\ accept_thread' = "died"
               /\ UNCHANGED <<handlers, a_pc>>
          ELSE /\ handlers' = [handlers EXCEPT ![e].sock = a_loc.sock,
                                                ![e].should_run = TRUE,
                                                ![e].thread = "alive",
                                                ![e].pc = "loop"]
               /\ a_pc' = "loop"
               /\ UNCHANGED accept_thread
    /\ a_loc' = NoALoc
    /\ UNCHANGED <<srv_should_run, accept_socket, srv_conns, client_ids, backlog,
                   s_pc, s_hist, sockets, cliVars, connVars, codec>>

(***************************************************************************)
(* The clients and the network, seen from the server's sockets.            *)
(***************************************************************************)
\* a client connects: a socket for accept() to return
CliConnect ==
    /\ accept_socket = "listening" /\ s_hist.conns < MaxCliConns
    /\ s_hist' = [s_hist EXCEPT !.conns = @ + 1]
    /\ \E s \in HandlerIds :
         /\ sockets[s].st = "fresh"
         /\ \A r \in HandlerIds : sockets[r].st = "fresh" => s <= r
         /\ sockets' = [sockets EXCEPT ![s].st = "connected", ![s].far = "open",
                                        ![s].acc = TRUE]
         /\ backlog' = Append(backlog, s)
    /\ UNCHANGED <<srv_should_run, accept_socket, srv_conns, client_ids, accept_thread,
                   a_pc, a_loc, s_pc, handlers, cliVars, connVars, codec>>

\* the client writes its first message
CliSend(s, msg) ==
    /\ sockets[s].st = "connected" /\ sockets[s].far = "open"
    /\ s_hist.owner[s] = None
    /\ sockets' = [sockets EXCEPT ![s].inb = Append(@, msg)]
    /\ s_hist' = [s_hist EXCEPT !.owner[s] =
                     IF NegotiatedId(msg) = None THEN "anon" ELSE NegotiatedId(msg)]
    /\ UNCHANGED <<srv_should_run, accept_socket, srv_conns, client_ids, accept_thread,
                   a_pc, a_loc, backlog, s_pc, handlers, cliVars, connVars, codec>>

\* the client closes its end, or the connection is reset
CliClose(s, how) ==
    /\ sockets[s].st = "connected" /\ sockets[s].far = "open"
    /\ s_hist.closes < MaxCliCloses
    /\ s_hist' = [s_hist EXCEPT !.closes = @ + 1]
    /\ sockets' = [sockets EXCEPT ![s].far = how]
    /\ UNCHANGED <<srv_should_run, accept_socket, srv_conns, client_ids, accept_thread,
                   a_pc, a_loc, backlog, s_pc, handlers, cliVars, connVars, codec>>

ServerCall ==
    \/ ServerStart
    \/ ServerStop \/ ServerStopJoin \/ ServerStopConn \/ ServerStopConnJoin
    \/ \E to \in ClientIdSet : ServerSend(to, ECHO)
    \/ ServerBroadcast(ECHO) \/ ServerBroadcastNext

AcceptStep ==
    \/ AcceptLoop \/ Accept
    \/ NegotiateNew \/ NegotiateWait \/ NegotiateCheck \/ NegotiateReopen

CliStep ==
    \/ CliConnect
    \/ \E s \in HandlerIds :
         \E msg \in {NEGOTIATION(id) : id \in ClientIdSet} \cup {HELLO, NOID, EMPTYID} : CliSend(s, msg)
    \/ \E s \in HandlerIds : \E how \in {"closed", "reset"} : CliClose(s, how)

ServerNext ==
    \/ ServerCall
    \/ AcceptStep
    \/ \E h \in HandlerIds : MainLoop(h)
    \/ CliStep

vars == <<connVars, appVars>>

\* two handlers over one connection; no client, no server
InitConn == ConnInit /\ ObjInit /\ ClientIdle /\ ServerInit /\ CodecIdle /\ NoSubscribers
SpecConn == InitConn /\ [][ConnNext]_vars

\* one client, its handlers and threads; the server, which is up, is the
\* far end
SpecFrame == InitConn /\ [][FrameNext]_vars

\* one message through the codec
InitCodec == ConnInit /\ ObjInit /\ ClientIdle /\ ServerInit /\ CodecInit /\ NoSubscribers
SpecCodec == InitCodec /\ [][CodecNext]_vars

InitSetters == ConnInit /\ ObjInit /\ ClientIdle /\ ServerInit /\ CodecIdle /\ NoSubscribers
SpecSetters == InitSetters /\ [][SettersNext]_vars

\* the client with callbacks subscribed to its events
\* (reconnection off at first, a local bind asked for)
ClientInitPlain == ClientInit /\ ~attempt_reconnect /\ WantsBind(fields)
InitCallbacks == ConnInit /\ ObjInit /\ ClientInitPlain /\ ServerInit /\ CodecIdle /\ Subscribed
SpecCallbacks == InitCallbacks /\ [][CallbacksNext]_vars

InitClient == ConnInit /\ ObjInit /\ ClientInit /\ ServerInit /\ CodecIdle /\ NoSubscribers
SpecClient == InitClient /\ [][ClientNext]_vars

\* the same client, constructed with the default attempt_reconnect=True
\* (client.py line 64)
InitReconnecting == InitClient /\ attempt_reconnect
SpecReconnecting == InitReconnecting /\ [][ClientNext]_vars

\* one server, its handlers and threads; the clients are the far ends
InitServer == ConnInit /\ ObjInit /\ ClientIdle /\ ServerInit /\ CodecIdle /\ NoSubscribers
SpecServer == InitServer /\ [][ServerNext]_vars

\* one client whose server is down at first
\* the same, where the accept thread and the I/O loop threads get to run
ServerFair ==
    /\ WF_vars(AcceptStep)
    /\ \A h \in HandlerIds : WF_vars(MainLoop(h))
SpecServerFair == InitServer /\ [][ServerNext]_vars /\ ServerFair

InitOutage == ConnInit /\ ObjInit /\ ClientInitDown /\ ServerInit /\ CodecIdle /\ NoSubscribers
SpecOutage == InitOutage /\ [][OutageNext]_vars

\* the same, where every thread that can take a step gets to take one
OutageFair ==
    /\ \A t \in Threads : WF_vars(SetState(t))
    /\ \A t \in ConsumerIds :
         WF_vars(ConsumerCheckRunning(t) \/ WrapperStart(t) \/ WrapperWaitAbort(t) \/ WrapperPoll(t)
                    \/ WrapperAttempt(t) \/ ReconnectConnect(t) \/ ReconnectStart(t)
                    \/ WrapperDone(t) \/ ConsumerRecv(t))
SpecOutageFair == InitOutage /\ [][OutageNext]_vars /\ OutageFair

(***************************************************************************)
(* Claims checked under SpecConn.                                          *)
(***************************************************************************)
InQueue(m, q) == \E i \in DOMAIN q : q[i] = m
IsPrefix(s, t) == Len(s) <= Len(t) /\ SubSeq(t, 1, Len(s)) = s

\* what "b"'s owner has got or can get from recv(), in order
Arrived == received["b"] \o inbound_message_queue["b"]

\* handler "a" talks to handler "b" and the connection is up
HandlersUp ==
    /\ rawCount = 0 /\ link
    /\ \A e \in Ends : thread[e] = "alive" /\ sock[e] = "open"

\* nothing is queued, being written, in flight, unread or being assembled
Drained ==
    /\ outbound_message_queue["a"] = <<>> /\ pc["a"] \notin {"send_header", "send_body"}
    /\ wire["b"] = <<>> /\ rbuf["b"] = <<>>
    /\ pc["b"] \notin {"recv_header", "recv_body"}

\* C1: while the connection is up, the messages "b" receives are, in order
\* and without loss or duplication, the messages send() was called with on
\* "a": what has arrived is a prefix of what was enqueued, and all of it
\* once nothing is left on the way.
C1_FifoNoLossNoDup ==
    HandlersUp => /\ IsPrefix(Arrived, enqueued)
                  /\ Drained => Arrived = enqueued

\* C10: a 64-byte header that cannot be decoded never terminates the I/O
\* loop of the handler that reads it.
C10_BadHeaderKeepsLoop ==
    \A e \in Ends : cause[e] \notin BadHeaderKinds

\* some byte of message m's frame is in flight to e, has arrived there, or
\* is being assembled there
OnTheWay(m, e) ==
    \E r \in {wire[e][i] : i \in DOMAIN wire[e]}
             \cup {rbuf[e][i] : i \in DOMAIN rbuf[e]}
             \cup {rx[e].chunks[i] : i \in DOMAIN rx[e].chunks} :
        r.f = Frame(m)

Overflows(m) == Len(HeaderText(Len(Serialize(m.payload)), m.subject)) > HEADER_LEN_BYTES

\* C11: no byte of a message whose header is longer than 64 bytes is ever
\* written; the send step that pops such a message drops it, leaves the
\* rest of the queue as it was and the loop running, and the send step that
\* pops a message whose header is at most 64 bytes long starts to write
\* that message
C11_HeaderOverflow ==
    /\ [](\A e \in Ends : \A m \in Msgs \cup BigMsgs :
            Overflows(m) => ~OnTheWay(m, e) /\ tx[e].msg # m)
    /\ [][\A e \in Ends :
            (pc[e] = "send" /\ pc'[e] # "send" /\ outbound_message_queue[e] # <<>>) =>
                LET m == Head(outbound_message_queue[e]) IN
                /\ outbound_message_queue'[e] = Tail(outbound_message_queue[e])
                /\ Overflows(m) =>
                      /\ pc'[e] = "loop" /\ thread'[e] = "alive"
                      /\ should_run'[e] = should_run[e]
                      /\ wire' = wire /\ tx' = tx /\ cause' = cause
                /\ ~Overflows(m) =>
                      /\ pc'[e] = "send_header"
                      /\ tx'[e].msg = m /\ tx'[e].total = 0]_vars

C11_Witness ==
    /\ enqueued = <<M65, M64>>
    /\ received["b"] = <<M64>>
    /\ thread["a"] = "alive" /\ outbound_message_queue["a"] = <<>>

\* C18: a message whose header fits is framed and parsed, never dropped or
\* skipped; its frame is the header of HEADER_LEN_BYTES bytes followed by
\* the body, and the length the header carries is the number of bytes of
\* the body; the message parsed has the subject and the payload of the
\* message framed
C18_RoundTrip ==
    /\ (codec.st # "none" /\ HeaderFits(Frame(codec.msg)))
           => codec.st \notin {"dropped", "skipped"}
    /\ codec.st \in {"sent", "received"} =>
           LET h == ParseHeader(SubSeq(codec.frame, 1, HEADER_LEN_BYTES))
               body == SubSeq(codec.frame, HEADER_LEN_BYTES + 1, Len(codec.frame))
           IN /\ h.ok /\ h.msglen = Len(body)
              /\ body = Encode(Serialize(codec.msg.payload))
    /\ codec.st = "received" =>
           /\ codec.out.subject = codec.msg.subject
           /\ codec.out.payload = codec.msg.payload

C18_Witness ==
    /\ codec.st = "received"
    /\ codec.msg.subject = "say \"hi\"" /\ Len(codec.msg.payload) = 3
    /\ codec.out = codec.msg

\* C30: a handler whose I/O loop thread has ended, by returning or on an
\* exception, has closed its socket
C30_EndedLoopClosedSocket ==
    \A e \in Ends : thread[e] \in {"done", "died"} => sock[e] = "closed"

\* the send tick of e ends on a write that failed
WriteFails(e) ==
    /\ thread[e] = "alive" /\ pc[e] \in {"send_header", "send_body"} /\ Broken(e)
    /\ pc'[e] # pc[e] \/ thread'[e] # thread[e]

\* C31: when a write of a frame's header or body fails, the message is put
\* back at the head of the outbound queue as it was, the tick returns False
\* (the loop is told to stop) and the thread goes on to the loop condition
C31_FailedWriteRequeues ==
    [][\A e \in Ends :
         WriteFails(e) =>
             /\ outbound_message_queue'[e] = <<tx[e].msg>> \o outbound_message_queue[e]
             /\ ~should_run'[e]
             /\ thread'[e] = "alive" /\ pc'[e] = "loop"]_vars

\* the header read of e times out: the tick returns with nothing read
HeaderTimeout(e) ==
    thread[e] = "alive" /\ pc[e] = "recv_header" /\ rbuf[e] = <<>> /\ pc'[e] = "send"

\* C32: a timeout in the header read leaves the loop running, adds nothing to
\* the inbound queue and keeps the header bytes read so far
C32_HeaderTimeoutKeepsBytes ==
    [][\A e \in Ends :
         HeaderTimeout(e) =>
             /\ thread'[e] = "alive" /\ should_run'[e] = should_run[e]
             /\ inbound_message_queue'[e] = inbound_message_queue[e]
             /\ rx'[e].chunks = rx[e].chunks
             /\ rx'[e].bytes_recvd = rx[e].bytes_recvd]_vars

(***************************************************************************)
(* The server's claims.                                                    *)
(***************************************************************************)
\* a later connection on socket s negotiated id, which the directory already
\* held, and the accept thread is done with it: g is the handler that
\* __negotiate_client_id made for it and discarded
Reconnected(s, id) ==
    \E g \in HandlerIds :
        /\ g # HandlerOf(id) /\ a_loc.h # g
        /\ client_ids[g] = id /\ handlers[g].sock = s /\ s_hist.owner[s] = id

\* the server was started and not stopped since
SrvUp == srv_should_run /\ s_pc.pc = "idle" /\ Len(s_hist.notified) = 1

\* C3: an id has one directory entry, and once a client has connected again
\* and negotiated an id of the directory, for as long as the client keeps
\* that connection open and the server runs, the id's handler holds the new
\* socket, open, with its loop running to write what it queues, and the
\* accept thread lives
C3_ReconnectKeepsQueue ==
    \A id \in ConnIds :
        LET e == HandlerOf(id) IN
        /\ Cardinality({i \in DOMAIN srv_conns : srv_conns[i].id = id}) = 1
        /\ \A s \in HandlerIds :
             (SrvUp /\ Reconnected(s, id) /\ sockets[s].far = "open")
                 => /\ accept_thread = "alive"
                    /\ handlers[e].sock = s
                    /\ sockets[s].st = "connected"
                    /\ running(e)

\* the accept thread is at the check of a negotiation that failed
NegotiationFailed == a_pc = "n_check" /\ client_ids[a_loc.h] = None

\* C12: the step that finds a negotiation failed leaves the directory as it
\* was and tells the handler to stop; every directory entry holds an id that
\* its handler negotiated; and the socket of a failed negotiation is closed
\* in the end
C12_FailedNegotiation ==
    /\ [][(NegotiationFailed /\ a_pc' # "n_check") =>
             /\ srv_conns' = srv_conns
             /\ ~handlers'[a_loc.h].should_run
             /\ a_pc' = "loop"]_vars
    /\ [](\A i \in DOMAIN srv_conns :
             srv_conns[i].id \in ClientIdSet /\ client_ids[srv_conns[i].h] = srv_conns[i].id)
    /\ \A s \in HandlerIds :
          (NegotiationFailed /\ a_loc.sock = s) ~> (sockets[s].st = "closed")

\* the caller's step is a whole send(to, m) with an id
UnicastStep ==
    /\ s_pc.pc = "idle" /\ s_pc'.pc = "idle"
    /\ s_hist'.calls = s_hist.calls + 1 /\ s_pc'.to \in ClientIdSet

\* the queues of all handlers but those of hs are as they were
OtherQueuesKept(hs) ==
    \A g \in HandlerIds \ hs : handlers'[g].out = handlers[g].out

Restarted ==
    /\ s_pc.pc = "idle"
    /\ s_hist.notified = << <<FALSE, TRUE>>, <<TRUE, FALSE>>, <<FALSE, TRUE>> >>

\* C14: after start(), stop() and start() again the last call has returned
\* True, the server is running, its accept thread lives and the directory
\* holds what it held
C14_RestartSucceeds ==
    Restarted =>
        /\ s_pc.ret = "True"
        /\ srv_should_run /\ accept_socket = "listening"
        /\ accept_thread = "alive"

\* stop() has returned and start() was not called since
Stopped == s_pc.pc = "idle" /\ ~srv_should_run /\ s_hist.notified # <<>>

\* C15: once stop() has returned the subscribers were told of the change
\* from running to stopped, the accept thread has ended and registers
\* nothing more, and no handler of the directory is to run or has a running
\* loop; and stop() has enqueued a shutdown message on each of them
C15_StopStops ==
    /\ [](Stopped =>
            /\ s_hist.notified[Len(s_hist.notified)] = <<TRUE, FALSE>>
            /\ accept_thread \in {"done", "died"}
            /\ accept_socket = "closed"
            /\ \A i \in DOMAIN srv_conns :
                  /\ ~handlers[srv_conns[i].h].should_run
                  /\ ~running(srv_conns[i].h))
    /\ [][Stopped => srv_conns' = srv_conns /\ client_ids' = client_ids]_vars
    /\ [][(s_pc.pc = "conns" /\ s_pc'.pc = "conn_join") =>
            /\ s_pc'.h = srv_conns[s_pc.i].h
            /\ handlers'[s_pc'.h].out = Append(handlers[s_pc'.h].out, SHUTDOWN)]_vars
    /\ [][(s_pc.pc = "conn_join" /\ s_pc'.pc = "conns") => s_pc'.i = s_pc.i + 1]_vars
    /\ [][(s_pc.pc = "conns" /\ s_pc'.pc = "idle") => s_pc.i = Len(srv_conns) + 1]_vars
    /\ [][(s_pc.pc = "join" /\ s_pc'.pc = "conns") => s_pc'.i = 1]_vars

C15_Witness ==
    /\ Stopped /\ Len(srv_conns) = 2
    /\ \A i \in DOMAIN srv_conns : s_hist.sent[srv_conns[i].id] = <<SHUTDOWN>>
    /\ \E i \in DOMAIN srv_conns :
          InQueue(SHUTDOWN, sockets[handlers[srv_conns[i].h].sock].outb)

\* the accept thread takes the step that reopens the handler the directory
\* has for a negotiated id
ReopenStep == accept_thread = "alive" /\ a_pc = "n_reopen" /\ a_loc' # a_loc

\* C20: the step that reopens the existing handler of an id hands it the new
\* socket and sets its loop running, whether its loop was still running or
\* had stopped, and leaves the directory and the accept thread as they were
C20_ReopenRebinds ==
    [][ReopenStep =>
          LET e == HandlerOf(client_ids[a_loc.h])
          IN /\ handlers'[e].sock = a_loc.sock
             /\ handlers'[e].should_run /\ handlers'[e].thread = "alive"
             /\ srv_conns' = srv_conns
             /\ accept_thread' = "alive"]_vars

\* C21: the accept thread never ends on an exception, and while the server
\* is up (started, not stopped) it is alive
C21_AcceptLoopLives ==
    /\ accept_thread # "died"
    /\ SrvUp => accept_thread = "alive"

\* C22: no two handlers whose I/O loop threads are alive hold the same
\* socket
C22_OneLoopPerSocket ==
    \A e, g \in HandlerIds :
        (e # g /\ running(e) /\ running(g)) => handlers[e].sock # handlers[g].sock

\* C33: every step leaves the entries of the directory as they are, ids and
\* handler objects in place, and a step that changes the directory is the
\* negotiation of an id, which appends the entry of that id and its handler
C33_DirectoryGrowsOnly ==
    [][/\ IsPrefix(srv_conns, srv_conns')
       /\ srv_conns' # srv_conns =>
            /\ a_pc = "n_check" /\ client_ids[a_loc.h] # None
            /\ client_ids[a_loc.h] \notin ConnIds
            /\ srv_conns' = Append(srv_conns, [id |-> client_ids[a_loc.h], h |-> a_loc.h])]_vars

\* the server was started and stopped, the id of the directory's entry was
\* negotiated a second time, and the entry is there
C33_Witness ==
    /\ Len(s_hist.notified) = 2 /\ s_pc.pc = "idle"
    /\ Len(srv_conns) = 1
    /\ \E s \in HandlerIds : Reconnected(s, srv_conns[1].id)

\* C35: no broadcast send('*', m) ends on an exception
C35_BroadcastCompletes ==
    ~(s_pc.pc = "idle" /\ s_pc.to = "*" /\ s_pc.ret = "raised")

(***************************************************************************)
(* The client's claims.                                                    *)
(***************************************************************************)
Returned(t, v) == t_pc[t] = "idle" /\ t_loc[t].ret = v

RECURSIVE Pow2(_)
Pow2(n) == IF n = 0 THEN 1 ELSE 2 * Pow2(n - 1)

\* C2: with the server up and nothing lost, connect() returns True with the
\* status exactly ok|connected and one connect event; a disconnect() after
\* it returns True with the status exactly ok|not-connected, one connect
\* event and one disconnect event
C2_ConnectThenDisconnect ==
    (t_pc[Caller] = "idle" /\ listening = "up" /\ drops = 0) =>
        /\ calls = <<"connect">> =>
              /\ t_loc[Caller].ret = "True"
              /\ state = {"OK", "CONNECTED"}
              /\ ev.connect = 1 /\ ev.disconnect = 0
        /\ calls = <<"connect", "disconnect">> =>
              /\ t_loc[Caller].ret = "True"
              /\ state = {"OK", "NOT_CONNECTED"}
              /\ ev.connect = 1 /\ ev.disconnect = 1

C2_Witness ==
    /\ Returned(Caller, "True") /\ listening = "up" /\ drops = 0
    /\ calls = <<"connect", "disconnect">>
    /\ state = {"OK", "NOT_CONNECTED"}

\* C4: after a connect() that could not connect because the server was
\* down, the call has returned False, the status includes connect-failed and
\* not-connected, the handler is cleared, no recv-consumer thread was made
\* and no connect event fired
C4_FailedConnectFails ==
    (t_pc[Caller] = "idle" /\ calls = <<"connect">> /\ listening = "down") =>
        /\ t_loc[Caller].ret = "False"
        /\ {"CONNECT_FAILED", "NOT_CONNECTED"} \subseteq state
        /\ conn = 0
        /\ recv_consumer_thread = 0
        /\ ev.connect = 0

InEpisode(t) == t_pc[t] \in {"w_wait", "w_sleep", "rc_connect", "rc_start"}

\* C5: when the wrapper's last status write returns the status is exactly
\* ok|connected and the client holds a started handler; the wrapper then
\* fires one reconnect event and no other, goes on to recv(), and a
\* reconnect event fires nowhere else; and an episode that runs while the
\* server is up and attempt_reconnect is on ends reconnected
C5_ReconnectSucceeds ==
    /\ [][\A t \in ConsumerIds :
            /\ (t_pc[t] # "w_done" /\ t_pc'[t] = "w_done") =>
                   /\ state' = {"OK", "CONNECTED"}
                   /\ conn' # 0 /\ handlers'[conn'].thread # "none"
                   /\ recv_consumer_should_run'
            /\ (t_pc[t] = "w_done" /\ t_pc'[t] # "w_done") =>
                   /\ ev' = [ev EXCEPT !.reconnect = @ + 1]
                   /\ t_pc'[t] = "r_recv"]_vars
    /\ [][ev'.reconnect # ev.reconnect => \E t \in ConsumerIds : t_pc[t] = "w_done"]_vars
    /\ \A t \in ConsumerIds :
         (InEpisode(t) /\ Listening /\ attempt_reconnect)
             ~> (t_pc[t] = "w_done" \/ ~attempt_reconnect)

C5_Witness ==
    \E t \in ConsumerIds :
        /\ t_pc[t] = "r_recv" /\ t_loc[t].fails > 0
        /\ ev.reconnect = 1 /\ ev.connect = 1 /\ ev.message = 1
        /\ state = {"OK", "CONNECTED"}

\* C6: once disconnect() was the last call made and has returned, the
\* recv-consumer starts no connection attempt
C6_DisconnectAbortsReconnect ==
    [][\A t \in ConsumerIds :
         (t_pc[t] = "w_wait" /\ t_pc'[t] = "w_sleep")
             => ~(Len(calls) > 0 /\ calls[Len(calls)] = "disconnect"
                     /\ t_pc[Caller] = "idle")]_vars

\* C7: the recv-consumer does not enter a reconnect while the handler it
\* leaves holds a shutdown message
C7_ShutdownNeverReconnects ==
    \A t \in ConsumerIds :
        t_pc[t] = "w_wait" => (conn = 0 \/ ~InQueue(SHUTDOWN, handlers[conn].inb))

\* C8: in the backoff wait after N failed attempts of the episode the wait
\* is min(2^N, 150) tenths of a second
C8_Backoff ==
    \A t \in ConsumerIds :
        t_pc[t] = "w_wait" =>
            /\ t_loc[t].sleeptime = Min(Pow2(t_loc[t].fails), SLEEP_CAP)
            /\ t_loc[t].sleeptime >= SLEEP_FIRST /\ t_loc[t].sleeptime <= SLEEP_CAP

C8_Witness ==
    \E t \in ConsumerIds :
        t_pc[t] = "w_wait" /\ t_loc[t].fails >= 8 /\ t_loc[t].sleeptime = SLEEP_CAP

\* C9: the last statechange event dispatched has different from and to
C9_NoSelfTransition == sc_last # <<>> => sc_last[1] # sc_last[2]

LastCall(c) == t_pc[Caller] = "idle" /\ calls # <<>> /\ calls[Len(calls)] = c

\* C16: a connect() made while address, port or client_id is not set has
\* returned False
C16_UnsetConnectFails ==
    (LastCall("connect") /\ ~Inited(fields)) => t_loc[Caller].ret = "False"

\* a step that is a call of one of the five property setters
SetterCall == t_pc[Caller] = "idle" /\ calls' = Append(calls, "set")

RunningNeverSet == "RUNNING" \notin state

\* the step dispatches event e
Dispatches(e) ==
    IF e = "statechange"
    THEN \E t \in Threads : t_pc[t] = "ss_write" /\ t_pc'[t] # "ss_write"
    ELSE ev'[e] # ev[e]

\* the threads of cb_threads' that cb_threads did not have
NewThreads == SubSeq(cb_threads', Len(cb_threads) + 1, Len(cb_threads'))

\* C17: a step that dispatches an event with k subscribed callbacks leaves
\* the threads there were as they were and starts k threads, one for each
\* of the k callbacks; the thread that dispatches moves on (or its call
\* returns in that step) and nothing is raised into it; and a callback thread that has not ended can take its
\* step, whatever the other callbacks have done
C17_TriggerStartsAll ==
    /\ [][\A e \in Events : Dispatches(e) =>
            /\ SubSeq(cb_threads', 1, Len(cb_threads)) = cb_threads
            /\ Len(NewThreads) = Len(callbacks[e])
            /\ \A n \in 1..Len(callbacks[e]) :
                   Cardinality({i \in 1..Len(NewThreads) :
                                   /\ NewThreads[i].event = e /\ NewThreads[i].cb = n
                                   /\ NewThreads[i].kind = callbacks[e][n]
                                   /\ NewThreads[i].st = "running"}) = 1
            /\ \E t \in Threads :
                   /\ t_pc'[t] # t_pc[t] \/ (t = Caller /\ calls' # calls)
                   /\ t_loc'[t].ret # "raised"]_vars
    /\ [](\A n \in DOMAIN cb_threads :
            (cb_threads[n].st = "running" /\ cb_threads[n].kind # "hangs")
                => ENABLED CallbackRun(n))

\* connect() and disconnect() have returned True, a message was dispatched,
\* and of the callbacks of connect one has raised, one has returned and one
\* is still running
C17_Witness ==
    /\ LastCall("disconnect") /\ t_loc[Caller].ret = "True"
    /\ ev.connect = 1 /\ ev.disconnect = 1 /\ ev.message = 1
    /\ \E i, j, k \in DOMAIN cb_threads :
          /\ cb_threads[i].event = "connect" /\ cb_threads[i].st = "raised"
          /\ cb_threads[j].event = "connect" /\ cb_threads[j].st = "running"
          /\ cb_threads[k].event = "connect" /\ cb_threads[k].st = "returned"
    /\ \E i \in DOMAIN cb_threads :
          cb_threads[i].event = "message" /\ cb_threads[i].st = "returned"
    /\ \E i \in DOMAIN cb_threads : cb_threads[i].event = "statechange"

\* disconnect(), having found the client connected, returns
DisconnectReturns == t_pc[Caller] = "d_joinc" /\ t_pc'[Caller] = "idle"

\* C23: when a disconnect() that found the client connected returns, the
\* recv-consumer thread is not alive, the handler reference is cleared, no
\* I/O loop thread is alive, and the status has not-connected and has
\* neither connected nor connecting
C23_DisconnectLeavesNothing ==
    [][DisconnectReturns =>
          /\ \A t \in ConsumerIds : ~Alive(t)'
          /\ conn' = 0
          /\ \A h \in HandlerIds : handlers'[h].thread # "alive"
          /\ "NOT_CONNECTED" \in state'
          /\ "CONNECTED" \notin state' /\ "CONNECTING" \notin state']_vars

\* a call of connect(): the step that appends it to the calls
ConnectCall == t_pc[Caller] = "idle" /\ calls' = Append(calls, "connect")

\* the step leaves the status, the handler reference, the handlers with their
\* queues and the consumer thread as they were, and dispatches nothing
NothingTouched ==
    /\ state' = state /\ conn' = conn /\ handlers' = handlers
    /\ recv_consumer_thread' = recv_consumer_thread
    /\ recv_consumer_should_run' = recv_consumer_should_run
    /\ attempt_reconnect' = attempt_reconnect
    /\ t_pc' = t_pc /\ t_ss' = t_ss
    /\ ev' = ev /\ sc_last' = sc_last /\ cb_threads' = cb_threads

DisconnectCall == t_pc[Caller] = "idle" /\ calls' = Append(calls, "disconnect")

\* C25: disconnect() called while the status does not include connected
\* dispatches exactly one disconnect event and returns failure, and leaves
\* the status, the handler, the consumer and the reconnection setting as
\* they were
C25_DisconnectRefused ==
    [][(DisconnectCall /\ "CONNECTED" \notin state) =>
          /\ t_loc'[Caller].ret = "False"
          /\ ev' = [ev EXCEPT !["disconnect"] = @ + 1]
          /\ state' = state /\ conn' = conn /\ handlers' = handlers
          /\ recv_consumer_thread' = recv_consumer_thread
          /\ recv_consumer_should_run' = recv_consumer_should_run
          /\ attempt_reconnect' = attempt_reconnect
          /\ t_pc' = t_pc /\ t_ss' = t_ss /\ sc_last' = sc_last]_vars

\* disconnect() has just returned failure on a client that reconnects and is
\* not connected
C25_Witness ==
    /\ LastCall("disconnect") /\ t_loc[Caller].ret = "False"
    /\ "CONNECTED" \notin state /\ attempt_reconnect
    /\ ev["disconnect"] = 1

\* C26: while attempt_reconnect is off, a recv-consumer that is in the
\* backoff wait makes no connection attempt and fires no reconnect event,
\* and the wait ends in the status write reconnect-failed|not-connected,
\* after which the thread is done
C26_DisabledWaitGivesUp ==
    [][\A t \in ConsumerIds :
         (t_pc[t] \in {"w_wait", "w_sleep"} /\ ~attempt_reconnect /\ t_pc'[t] # t_pc[t])
             => /\ \/ t_pc'[t] = "done" /\ state = {"RECONNECT_FAILED", "NOT_CONNECTED"}
                   \/ /\ t_ss'[t].target = {"RECONNECT_FAILED", "NOT_CONNECTED"}
                      /\ t_ss'[t].ret = "done"
                /\ ev' = ev /\ conn' = conn]_vars

\* C27: a recv-consumer that finds the handler's loop stopped and
\* attempt_reconnect off gives up by writing a status without connected
\* (which dispatches the statechange event), unless the status is without
\* it already
C27_LossSurfaced ==
    [][\A t \in ConsumerIds :
         (t_pc[t] = "r_attempt" /\ ~attempt_reconnect /\ t_pc'[t] # "r_attempt")
             => \/ "CONNECTED" \notin state
                \/ t_pc'[t] = "ss_read" /\ "CONNECTED" \notin t_ss'[t].target]_vars

\* C28: the statechange event dispatched by a status write carries the
\* status the write replaced as from and the status written as to
C28_TransitionsChain ==
    [][\A t \in Threads :
         (t_pc[t] = "ss_write" /\ t_pc'[t] # "ss_write")
             => sc_last' = <<state, state'>>]_vars

\* the recv-consumer t pops a message from the handler's inbound queue
Pops(t) ==
    /\ t_pc[t] = "r_recv" /\ conn # 0 /\ handlers[conn].inb # <<>>
    /\ t_pc'[t] # "r_recv"

\* the message events dispatched so far, and the threads started for them
MessageThreads == SelectSeq(cb_threads, LAMBDA th : th.event = "message")

ConnectionFlags == {"NOT_CONNECTED", "CONNECTING", "CONNECTED"}

\* C34: the status holds exactly one of not-connected, connecting, connected
C34_OneConnectionFlag == Cardinality(state \cap ConnectionFlags) = 1

\* a setter has left the status with needs-init on a client that reconnected
C34_Witness ==
    /\ LastCall("set") /\ state = {"NEEDS_INIT", "OK", "CONNECTED"}
    /\ ev["reconnect"] = 1

\* the recv-consumer t finds the loop stopped and attempt_reconnect off, and
\* gives up
GivesUp(t) == t_pc[t] = "r_attempt" /\ t_pc'[t] = "done"

\* C36: on a client constructed with reconnection enabled, to which the
\* application has assigned nothing since, the recv-consumer does not give
\* up on a connection that connect() made as the last call
C36_LaterConnectionReconnects ==
    [][\A t \in ConsumerIds :
         (GivesUp(t) /\ calls[Len(calls)] = "connect")
             => \E i \in DOMAIN calls : calls[i] = "set"]_vars

\* C37: no recv-consumer thread has ended on the exception that reading the
\* handler through a cleared reference raises
C37_ConsumerNeverDies == \A t \in ConsumerIds : t_pc[t] # "died"

\* C38: the handler that a reconnect attempt replaces holds no message that
\* the recv-consumer has not popped
C38_NoMessageLeftBehind ==
    [][\A t \in ConsumerIds :
         (t_pc[t] = "w_sleep" /\ t_pc'[t] # "w_sleep" /\ conn # 0)
             => handlers[conn].inb = <<>>]_vars

\* handler h's loop leaves at its loop condition and closes the socket, lines
\* 187 and 197-200
LoopCloses(h) ==
    /\ handlers[h].thread = "alive" /\ handlers[h].pc = "loop"
    /\ ~handlers[h].should_run
    /\ handlers'[h] # handlers[h]

\* C39: when a handler's loop closes a socket that could still be written, no
\* shutdown message is left in the handler's outbound queue
C39_ShutdownWrittenBeforeClose ==
    [][\A h \in HandlerIds :
         (LoopCloses(h) /\ Usable(handlers[h].sock))
             => \A i \in DOMAIN handlers[h].out : handlers[h].out[i] # SHUTDOWN]_vars

\* C40: reading client_id gives the value last assigned to client_id, absent
\* when none was assigned, whatever the other fields hold
C40_ClientIdReadsBack == client_id = fields.client_id

====
